---- MODULE Spec2Model ----
(***************************************************************************)
(* A model of the software renderer of Lab5Graficas: the vertex shader     *)
(* (src/src/shaders.rs), the barycentric rasterizer (src/src/triangle.rs), *)
(* the draw call `render` and its callers (src/src/main.rs) and the        *)
(* framebuffer they write.                                                 *)
(*                                                                         *)
(* Numbers.  The program computes in f32.  The model computes in exact     *)
(* rationals n/d (d > 0, lowest terms), extended with the three IEEE       *)
(* specials a division by zero produces: +inf = 1/0, -inf = -1/0 and       *)
(* NaN = 0/0.  Most inputs are small integers and halves, on which f32     *)
(* addition, subtraction and multiplication are exact; the quotients       *)
(* differ from the f32 ones by rounding only, which keeps their order      *)
(* with 0 and 1.  The edge function of the rasterizer rounds the result    *)
(* of each operation to the 24 bits of an f32 significand, so that it      *)
(* is also right on coordinates with many bits.  Negative zero is not      *)
(* distinguished.                                                          *)
(* Where the ends of the f32 range matter (the values the shading          *)
(* functions return), a vector carries a binary exponent and results       *)
(* round to an infinity or to zero as f32 does.                            *)
(*                                                                         *)
(* Evaluation.  A `let` of the code binds a value once.  Where an operand  *)
(* is used more than once the model binds it the same way, as the element  *)
(* of a singleton set (Let1, Let2, Let3 below), so that it is computed     *)
(* once.                                                                   *)
(***************************************************************************)
EXTENDS Integers, Sequences, FiniteSets, TLC

----------------------------------------------------------------------------
(* let bindings                                                            *)

\* F(v), F(v, w), F(v, w, u) with the operands evaluated once.
Let1(v, F(_)) == CHOOSE r \in {F(x) : x \in {v}} : TRUE

Let2(v, w, F(_, _)) == CHOOSE r \in {F(x, y) : x \in {v}, y \in {w}} : TRUE

Let3(v, w, u, F(_, _, _)) ==
    CHOOSE r \in {F(x, y, z) : x \in {v}, y \in {w}, z \in {u}} : TRUE

\* The function f as a stored array: every element is computed, once.
Array(f) == f @@ <<>>

----------------------------------------------------------------------------
(* f32 values                                                              *)

Abs(i) == IF i < 0 THEN -i ELSE i

Sgn(i) == IF i < 0 THEN -1 ELSE IF i > 0 THEN 1 ELSE 0

RECURSIVE GCD(_, _)
GCD(a, b) == IF b = 0 THEN a ELSE GCD(b, a % b)

\* The value n/d in canonical form.
Q(n, d) ==
    IF d = 0 THEN [n |-> Sgn(n), d |-> 0]
    ELSE LET g == GCD(Abs(n), Abs(d))
             s == IF d < 0 THEN -1 ELSE 1
         IN  [n |-> (s * n) \div g, d |-> (s * d) \div g]

I(i) == [n |-> i, d |-> 1]

INFINITY == [n |-> 1, d |-> 0]

NEG_INFINITY == [n |-> -1, d |-> 0]

NAN == [n |-> 0, d |-> 0]

IsNaN(a) == a.d = 0 /\ a.n = 0

IsFinite(a) == a.d # 0

\* The sum over the least common denominator.
AddV(a, b) ==
    IF a.d = 0 /\ b.d = 0 THEN (IF a.n = b.n THEN a ELSE NAN)
    ELSE LET g == GCD(a.d, b.d)
         IN  Q(a.n * (b.d \div g) + b.n * (a.d \div g), (a.d \div g) * b.d)

SubV(a, b) == AddV(a, [n |-> -b.n, d |-> b.d])

MulV(a, b) == Q(a.n * b.n, a.d * b.d)

\* IEEE division: x/0 is +inf, -inf or NaN by the sign of x.
DivV(a, b) ==
    IF b.n = 0
    THEN (IF b.d = 0 THEN NAN ELSE [n |-> Sgn(a.n), d |-> 0])
    ELSE IF a.d = 0 \/ b.d = 0 THEN Q(a.n * b.d * Sgn(b.n), a.d * Abs(b.n))
    ELSE LET g == GCD(a.d, b.d)
         IN  Q(a.n * (b.d \div g) * Sgn(b.n), (a.d \div g) * Abs(b.n))

\* IEEE comparisons: every comparison with NaN is false.
LeV(a, b) ==
    /\ ~IsNaN(a)
    /\ ~IsNaN(b)
    /\ IF a.d = 0 /\ b.d = 0 THEN a.n <= b.n ELSE a.n * b.d <= b.n * a.d

LtV(a, b) ==
    /\ ~IsNaN(a)
    /\ ~IsNaN(b)
    /\ IF a.d = 0 /\ b.d = 0 THEN a.n < b.n ELSE a.n * b.d < b.n * a.d

\* f32::min and f32::max: a NaN operand yields the other operand.
MinV(a, b) == IF IsNaN(a) THEN b ELSE IF IsNaN(b) THEN a ELSE IF LtV(b, a) THEN b ELSE a

MaxV(a, b) == IF IsNaN(a) THEN b ELSE IF IsNaN(b) THEN a ELSE IF LtV(a, b) THEN b ELSE a

\* The f32 operators +, -, *, /, <=, <, min, max and unary minus.
QAdd(a, b) == Let2(a, b, AddV)

QSub(a, b) == Let2(a, b, SubV)

QMul(a, b) == Let2(a, b, MulV)

QDiv(a, b) == Let2(a, b, DivV)

QLe(a, b) == \E x \in {a}, y \in {b} : LeV(x, y)

QLt(a, b) == \E x \in {a}, y \in {b} : LtV(x, y)

QMin(a, b) == Let2(a, b, MinV)

QMax(a, b) == Let2(a, b, MaxV)

NegV(a) == [n |-> -a.n, d |-> a.d]

QNeg(a) == Let1(a, NegV)

\* The range of i32, to which `as i32` saturates.
I32_MAX == 2147483647

I32_MIN == -I32_MAX - 1

\* `f.floor() as i32`: the cast saturates, and NaN casts to 0.
FloorI32V(a) ==
    IF IsNaN(a) THEN 0
    ELSE IF a.d = 0 THEN (IF a.n > 0 THEN I32_MAX ELSE I32_MIN)
    ELSE LET f == a.n \div a.d
         IN  IF f > I32_MAX THEN I32_MAX ELSE IF f < I32_MIN THEN I32_MIN ELSE f

\* `f.ceil() as i32`.
CeilI32V(a) ==
    IF IsNaN(a) THEN 0
    ELSE IF a.d = 0 THEN (IF a.n > 0 THEN I32_MAX ELSE I32_MIN)
    ELSE LET c == -((-a.n) \div a.d)
         IN  IF c > I32_MAX THEN I32_MAX ELSE IF c < I32_MIN THEN I32_MIN ELSE c

\* `f as usize`: truncates toward zero and saturates, so every negative
\* value (and NaN) casts to 0.
AsUsizeV(a) ==
    IF IsNaN(a) THEN 0
    ELSE IF a.n < 0 THEN 0
    ELSE IF a.d = 0 THEN I32_MAX
    ELSE a.n \div a.d

FloorI32(a) == Let1(a, FloorI32V)

CeilI32(a) == Let1(a, CeilI32V)

AsUsize(a) == Let1(a, AsUsizeV)

----------------------------------------------------------------------------
(* Vec3, Vec4, Mat3, Mat4 (nalgebra_glm)                                   *)

Vec3(x, y, z) == [x |-> x, y |-> y, z |-> z]

V3(i, j, k) == Vec3(I(i), I(j), I(k))

VAddV(u, v) == Vec3(AddV(u.x, v.x), AddV(u.y, v.y), AddV(u.z, v.z))

VScaleV(u, s) == Vec3(MulV(u.x, s), MulV(u.y, s), MulV(u.z, s))

VAdd(u, v) == Let2(u, v, VAddV)

VScale(u, s) == Let2(u, s, VScaleV)

\* The unit vector in the direction of u, named by the primitive integer
\* vector of that direction; the zero vector normalizes to NaN components,
\* written <<0, 0, 0>> (which is no direction).
NormalizeV(u) ==
    LET L  == u.x.d * u.y.d * u.z.d
        kx == u.x.n * u.y.d * u.z.d
        ky == u.y.n * u.x.d * u.z.d
        kz == u.z.n * u.x.d * u.y.d
        g  == GCD(GCD(Abs(kx), Abs(ky)), Abs(kz))
    IN  IF L = 0 \/ g = 0 THEN <<0, 0, 0>>
        ELSE <<kx \div g, ky \div g, kz \div g>>

Normalize(u) == Let1(u, NormalizeV)

\* Matrices are stored as nalgebra stores them: column-major, so that the
\* linear index m[i] is the entry at row i % n, column i \div n.
\* Matrix4::new and Matrix3::new take the entries row by row.
Mat4NewV(r) == Array([i \in 0..15 |-> r[(i % 4) * 4 + (i \div 4) + 1]])

Mat4New(r) == Let1(r, Mat4NewV)

Mat3NewV(r) == Array([i \in 0..8 |-> r[(i % 3) * 3 + (i \div 3) + 1]])

Mat3New(r) == Let1(r, Mat3NewV)

At4(m, r, c) == m[c * 4 + r]

At3(m, r, c) == m[c * 3 + r]

Mat3Identity == Mat3New(<<I(1), I(0), I(0), I(0), I(1), I(0), I(0), I(0), I(1)>>)

Transpose3V(m) == Array([i \in 0..8 |-> At3(m, i \div 3, i % 3)])

Transpose3(m) == Let1(m, Transpose3V)

Det3V(m) ==
    LET a == At3(m, 0, 0)  b == At3(m, 0, 1)  c == At3(m, 0, 2)
        d == At3(m, 1, 0)  e == At3(m, 1, 1)  f == At3(m, 1, 2)
        g == At3(m, 2, 0)  h == At3(m, 2, 1)  k == At3(m, 2, 2)
    IN  QAdd(QSub(QMul(a, QSub(QMul(e, k), QMul(f, h))),
                  QMul(b, QSub(QMul(d, k), QMul(f, g)))),
             QMul(c, QSub(QMul(d, h), QMul(e, g))))

Det3(m) == Let1(m, Det3V)

\* The entry of the adjugate of m at row r, column c.
Adjugate3(m, r, c) ==
    LET r1 == (c + 1) % 3
        r2 == (c + 2) % 3
        c1 == (r + 1) % 3
        c2 == (r + 2) % 3
    IN  QSub(QMul(At3(m, r1, c1), At3(m, r2, c2)),
             QMul(At3(m, r1, c2), At3(m, r2, c1)))

TryInverse3V(m, det) ==
    IF det.n = 0 THEN [some |-> FALSE, val |-> m]
    ELSE [some |-> TRUE,
          val  |-> Array([i \in 0..8 |-> QDiv(Adjugate3(m, i % 3, i \div 3), det)])]

\* Matrix3::try_inverse: None for a zero determinant, else adjugate / det.
TryInverse3(m) == Let2(m, Det3(m), TryInverse3V)

UnwrapOrV(opt, default) == IF opt.some THEN opt.val ELSE default

UnwrapOr(opt, default) == Let2(opt, default, UnwrapOrV)

Mat3MulVecV(m, v) ==
    LET Row(r) == QAdd(QAdd(QMul(At3(m, r, 0), v.x), QMul(At3(m, r, 1), v.y)),
                       QMul(At3(m, r, 2), v.z))
    IN  Vec3(Row(0), Row(1), Row(2))

Mat3MulVec(m, v) == Let2(m, v, Mat3MulVecV)

Mat4MulVecV(m, v) ==
    LET Row(r) == QAdd(QAdd(QMul(At4(m, r, 0), v.x), QMul(At4(m, r, 1), v.y)),
                       QAdd(QMul(At4(m, r, 2), v.z), QMul(At4(m, r, 3), v.w)))
    IN  [x |-> Row(0), y |-> Row(1), z |-> Row(2), w |-> Row(3)]

\* Mat4 * Vec4(x, y, z, w)
Mat4MulVec(m, v) == Let2(m, v, Mat4MulVecV)

Mat4MulV(m, k) ==
    Array([i \in 0..15 |->
        LET r == i % 4
            c == i \div 4
        IN  QAdd(QAdd(QMul(At4(m, r, 0), At4(k, 0, c)), QMul(At4(m, r, 1), At4(k, 1, c))),
                 QAdd(QMul(At4(m, r, 2), At4(k, 2, c)), QMul(At4(m, r, 3), At4(k, 3, c))))])

Mat4Mul(m, k) == Let2(m, k, Mat4MulV)

Mat4Identity ==
    Mat4New(<<I(1), I(0), I(0), I(0),
              I(0), I(1), I(0), I(0),
              I(0), I(0), I(1), I(0),
              I(0), I(0), I(0), I(1)>>)

\* The (sin, cos) pairs of a rotation vector, as `sin_cos` returns them.
\* Only angles whose sine and cosine are exact are used: 0 in every axis.
NoRotation ==
    [sin_x |-> I(0), cos_x |-> I(1),
     sin_y |-> I(0), cos_y |-> I(1),
     sin_z |-> I(0), cos_z |-> I(1)]

create_model_matrix(translation, scale, rotation) ==
    LET rotation_matrix_x ==
            Mat4New(<<I(1), I(0), I(0), I(0),
                      I(0), rotation.cos_x, QNeg(rotation.sin_x), I(0),
                      I(0), rotation.sin_x, rotation.cos_x, I(0),
                      I(0), I(0), I(0), I(1)>>)
        rotation_matrix_y ==
            Mat4New(<<rotation.cos_y, I(0), rotation.sin_y, I(0),
                      I(0), I(1), I(0), I(0),
                      QNeg(rotation.sin_y), I(0), rotation.cos_y, I(0),
                      I(0), I(0), I(0), I(1)>>)
        rotation_matrix_z ==
            Mat4New(<<rotation.cos_z, QNeg(rotation.sin_z), I(0), I(0),
                      rotation.sin_z, rotation.cos_z, I(0), I(0),
                      I(0), I(0), I(1), I(0),
                      I(0), I(0), I(0), I(1)>>)
        rotation_matrix == Mat4Mul(Mat4Mul(rotation_matrix_z, rotation_matrix_y),
                                   rotation_matrix_x)
        transform_matrix ==
            Mat4New(<<scale, I(0), I(0), translation.x,
                      I(0), scale, I(0), translation.y,
                      I(0), I(0), scale, translation.z,
                      I(0), I(0), I(0), I(1)>>)
    IN  Mat4Mul(transform_matrix, rotation_matrix)

Uniforms(model_matrix) == [model_matrix |-> model_matrix]

----------------------------------------------------------------------------
(* Program state                                                           *)

VARIABLES
    framebuffer,     \* Framebuffer { width, height, buffer, zbuffer,
                     \*               background_color, current_color }
    CURRENT_SHADER,  \* static CURRENT_SHADER: AtomicUsize (shaders.rs)
    NOISE_SEED,      \* static NOISE_SEED: AtomicU32 (shaders.rs)
    LIGHT_DIRECTION, \* the direction last passed to set_light_direction
    LIGHT_INTENSITY, \* the intensity last passed to set_light_intensity
    frame,           \* main's locals: where the frame loop stands, the keys held
    nops,            \* number of operations performed so far
    last,            \* the last operation, its arguments and the framebuffer before it
    drawn            \* the draw calls made since the last clear, in order

vars == <<framebuffer, CURRENT_SHADER, NOISE_SEED, LIGHT_DIRECTION, LIGHT_INTENSITY,
          frame, nops, last, drawn>>

\* The state no framebuffer operation and no call of a pure function touches.
light_and_frame == <<NOISE_SEED, LIGHT_DIRECTION, LIGHT_INTENSITY, frame>>

----------------------------------------------------------------------------
(* Shading dispatch (shaders.rs)                                           *)

get_noise_seed == NOISE_SEED

\* The colour a procedural shader returns is kept as the term
\* <<shader, everything the shader reads>>: the shaders' trigonometric bodies
\* are not evaluated. Gas and sun read pos and normal; the other five also
\* read the noise seed (noise_seed_vec3). The light direction of every shader
\* is a local constant.
planet_shader_gas(pos, normal) == <<"gas", pos, normal>>
planet_shader_rock(pos, normal) == <<"rock", pos, normal, get_noise_seed>>
planet_shader_sun(pos, normal) == <<"sun", pos, normal>>
planet_shader_cheese(pos, normal) == <<"cheese", pos, normal, get_noise_seed>>
planet_shader_cat(pos, normal) == <<"cat", pos, normal, get_noise_seed>>
planet_shader_bubblegum(pos, normal) == <<"bubblegum", pos, normal, get_noise_seed>>
planet_shader_ice(pos, normal) == <<"ice", pos, normal, get_noise_seed>>

get_shader_index == CURRENT_SHADER

\* A dispatch that sends every key above 6 to the last style.
ShadeClampsKey(pos, normal) ==
    CASE get_shader_index = 0 -> planet_shader_gas(pos, normal)
      [] get_shader_index = 1 -> planet_shader_rock(pos, normal)
      [] get_shader_index = 2 -> planet_shader_sun(pos, normal)
      [] get_shader_index = 3 -> planet_shader_cheese(pos, normal)
      [] get_shader_index = 4 -> planet_shader_cat(pos, normal)
      [] get_shader_index = 5 -> planet_shader_bubblegum(pos, normal)
      [] OTHER -> planet_shader_ice(pos, normal)

shade(pos, normal) ==
    CASE get_shader_index = 0 -> planet_shader_gas(pos, normal)
      [] get_shader_index = 1 -> planet_shader_rock(pos, normal)
      [] get_shader_index = 2 -> planet_shader_sun(pos, normal)
      [] get_shader_index = 3 -> planet_shader_cheese(pos, normal)
      [] get_shader_index = 4 -> planet_shader_cat(pos, normal)
      [] get_shader_index = 5 -> planet_shader_bubblegum(pos, normal)
      [] get_shader_index = 6 -> planet_shader_ice(pos, normal)
      [] OTHER -> planet_shader_gas(pos, normal)

\* Color::new of the three channels `(c * 255.0).clamp(0.0, 255.0) as u8`.
LitColor(rgb) == <<"rgb8", rgb>>

\* Color::to_hex: the packed 24-bit value of a Color.
ToHex(color) == <<"hex", color[2]>>

\* A literal u32 colour such as 0x000000.
U32(c) == <<"u32", c>>

----------------------------------------------------------------------------
(* Transform stage (shaders.rs)                                            *)

Vertex(position, normal) ==
    [position |-> position, normal |-> normal,
     tex_coords |-> <<0, 0>>, color |-> U32(0),
     transformed_position |-> V3(0, 0, 0),
     transformed_normal |-> normal]

\* A returned Vertex whose position is overwritten by the transformed one.
VertexShaderOutMoved(vertex, transformed, normal_matrix) ==
    LET w == transformed.w
        transformed_position == Vec3(QDiv(transformed.x, w),
                                     QDiv(transformed.y, w),
                                     QDiv(transformed.z, w))
        transformed_normal == Mat3MulVec(normal_matrix, vertex.normal)
    IN  [position |-> transformed_position,
         normal |-> vertex.normal,
         tex_coords |-> vertex.tex_coords,
         color |-> vertex.color,
         transformed_position |-> transformed_position,
         transformed_normal |-> transformed_normal]

\* vertex_shader, lines 65-73: the returned Vertex.
VertexShaderOut(vertex, transformed, normal_matrix) ==
    LET w == transformed.w
        transformed_position == Vec3(QDiv(transformed.x, w),
                                     QDiv(transformed.y, w),
                                     QDiv(transformed.z, w))
        transformed_normal == Mat3MulVec(normal_matrix, vertex.normal)
    IN  [position |-> vertex.position,
         normal |-> vertex.normal,
         tex_coords |-> vertex.tex_coords,
         color |-> vertex.color,
         transformed_position |-> transformed_position,
         transformed_normal |-> transformed_normal]

\* A normal matrix that falls back to the linear part itself when it is singular.
NormalMatrixFallsBackToModel(m) ==
    LET model_mat3 == Mat3New(<<m[0], m[1], m[2],
                                m[4], m[5], m[6],
                                m[8], m[9], m[10]>>)
    IN  UnwrapOr(TryInverse3(Transpose3(model_mat3)), model_mat3)

\* vertex_shader, lines 56-61: the matrix the normal is multiplied by.
NormalMatrix(m) ==
    LET model_mat3 == Mat3New(<<m[0], m[1], m[2],
                                m[4], m[5], m[6],
                                m[8], m[9], m[10]>>)
    IN  UnwrapOr(TryInverse3(Transpose3(model_mat3)), Mat3Identity)

\* A vertex shader that builds the homogeneous position with w = 0.
VertexShaderW0(vertex, uniforms) ==
    LET position == [x |-> vertex.position.x, y |-> vertex.position.y,
                     z |-> vertex.position.z, w |-> I(0)]
    IN  Let3(vertex,
             Mat4MulVec(uniforms.model_matrix, position),
             NormalMatrix(uniforms.model_matrix),
             VertexShaderOut)

vertex_shader(vertex, uniforms) ==
    LET position == [x |-> vertex.position.x, y |-> vertex.position.y,
                     z |-> vertex.position.z, w |-> I(1)]
    IN  Let3(vertex,
             Mat4MulVec(uniforms.model_matrix, position),
             NormalMatrix(uniforms.model_matrix),
             VertexShaderOut)

----------------------------------------------------------------------------
(* Rasterizer (triangle.rs)                                                *)

\* The significand of an f32 has 24 bits.
SignificandBits == 24

\* The number of low bits of the natural n that do not fit the significand.
RECURSIVE ExcessBits(_, _)
ExcessBits(n, s) == IF n < 2 ^ (SignificandBits + s) THEN s ELSE ExcessBits(n, s + 1)

\* n without its s low bits, rounded to nearest, ties to even.
RoundShift(n, s) ==
    LET q == n \div (2 ^ s)
        r == n % (2 ^ s)
        half == 2 ^ (s - 1)
    IN  IF r > half \/ (r = half /\ q % 2 = 1) THEN q + 1 ELSE q

\* The f32 nearest to the value v of an f32 operation.  A binary fraction
\* is rounded to 24 significant bits; an exact value with fewer bits, a
\* special and a quotient that is no binary fraction are kept.
F32Nearest(v) ==
    IF v.d = 0 \/ Abs(v.n) < 2 ^ SignificandBits \/ ~(\E k \in 0..30 : v.d = 2 ^ k)
    THEN v
    ELSE LET s == ExcessBits(Abs(v.n), 1)
         IN  Q(Sgn(v.n) * RoundShift(Abs(v.n), s) * (2 ^ s), v.d)

\* Each f32 operation of edge_function rounds its result.
EdgeV(a, b, c) ==
    LET Sub(u, v) == Let1(SubV(u, v), F32Nearest)
        Mul(u, v) == Let1(MulV(u, v), F32Nearest)
    IN  Sub(Mul(Sub(c.x, a.x), Sub(b.y, a.y)),
            Mul(Sub(c.y, a.y), Sub(b.x, a.x)))

edge_function(a, b, c) == Let3(a, b, c, EdgeV)

barycentric_coordinates(p, a, b, c, area) ==
    LET w1 == QDiv(edge_function(b, c, p), area)
        w2 == QDiv(edge_function(c, a, p), area)
        w3 == QDiv(edge_function(a, b, p), area)
    IN  <<w1, w2, w3>>

BoundingBoxV(v1, v2, v3) ==
    [min_x |-> FloorI32(QMin(QMin(v1.x, v2.x), v3.x)),
     min_y |-> FloorI32(QMin(QMin(v1.y, v2.y), v3.y)),
     max_x |-> CeilI32(QMax(QMax(v1.x, v2.x), v3.x)),
     max_y |-> CeilI32(QMax(QMax(v1.y, v2.y), v3.y))]

calculate_bounding_box(v1, v2, v3) == Let3(v1, v2, v3, BoundingBoxV)

\* The centre of pixel (x, y): Vec3::new(x as f32 + 0.5, y as f32 + 0.5, 0.0).
PixelCenter(x, y) == Vec3(Q(2 * x + 1, 2), Q(2 * y + 1, 2), I(0))

\* A containment test written as a negated rejection, which lets NaN through.
InsideTestNegated(w) ==
    ~(\/ QLt(w[1], I(0)) \/ QLt(I(1), w[1])
      \/ QLt(w[2], I(0)) \/ QLt(I(1), w[2])
      \/ QLt(w[3], I(0)) \/ QLt(I(1), w[3]))

\* A containment test with strict bounds, which drops centres on an edge.
InsideTestStrict(w) ==
    /\ QLt(I(0), w[1]) /\ QLt(w[1], I(1))
    /\ QLt(I(0), w[2]) /\ QLt(w[2], I(1))
    /\ QLt(I(0), w[3]) /\ QLt(w[3], I(1))

\* The containment test of triangle(): every weight in the closed [0, 1].
InsideTest(w) ==
    /\ QLe(I(0), w[1]) /\ QLe(w[1], I(1))
    /\ QLe(I(0), w[2]) /\ QLe(w[2], I(1))
    /\ QLe(I(0), w[3]) /\ QLe(w[3], I(1))

\* A fragment whose depth takes the third vertex with the second weight.
FragmentOfDepthW2(tri, x, y, w) ==
    LET v1 == tri[1]
        v2 == tri[2]
        v3 == tri[3]
        a == v1.transformed_position
        b == v2.transformed_position
        c == v3.transformed_position
        interp_pos == VAdd(VAdd(VScale(v1.position, w[1]), VScale(v2.position, w[2])),
                           VScale(v3.position, w[3]))
        interp_norm == Normalize(VAdd(VAdd(VScale(v1.transformed_normal, w[1]),
                                           VScale(v2.transformed_normal, w[2])),
                                      VScale(v3.transformed_normal, w[3])))
        rgb == shade(interp_pos, interp_norm)
        lit_color == LitColor(rgb)
        depth == QAdd(QAdd(QMul(a.z, w[1]), QMul(b.z, w[2])), QMul(c.z, w[2]))
    IN  [position |-> [x |-> I(x), y |-> I(y)], color |-> lit_color, depth |-> depth]

\* triangle, lines 41-57: the fragment pushed for pixel (x, y) of weights w.
FragmentOf(tri, x, y, w) ==
    LET v1 == tri[1]
        v2 == tri[2]
        v3 == tri[3]
        a == v1.transformed_position
        b == v2.transformed_position
        c == v3.transformed_position
        interp_pos == VAdd(VAdd(VScale(v1.position, w[1]), VScale(v2.position, w[2])),
                           VScale(v3.position, w[3]))
        interp_norm == Normalize(VAdd(VAdd(VScale(v1.transformed_normal, w[1]),
                                           VScale(v2.transformed_normal, w[2])),
                                      VScale(v3.transformed_normal, w[3])))
        rgb == shade(interp_pos, interp_norm)
        lit_color == LitColor(rgb)
        depth == QAdd(QAdd(QMul(a.z, w[1]), QMul(b.z, w[2])), QMul(c.z, w[3]))
    IN  [position |-> [x |-> I(x), y |-> I(y)], color |-> lit_color, depth |-> depth]

\* The pixels of the bounding box in the order the two loops visit them:
\* for y in min_y..=max_y { for x in min_x..=max_x { .. } }.
BoxPixelsV(bb) ==
    IF bb.max_x < bb.min_x \/ bb.max_y < bb.min_y THEN <<>>
    ELSE LET nx == bb.max_x - bb.min_x + 1
             ny == bb.max_y - bb.min_y + 1
         IN  <<>> \o [k \in 1..(nx * ny) |->
                        <<bb.min_x + ((k - 1) % nx), bb.min_y + ((k - 1) \div nx)>>]

BoxPixels(bb) == Let1(bb, BoxPixelsV)

\* The sequence of the F(s[k]), each computed once.
MapSeqV(s, F(_)) == <<>> \o [k \in 1..Len(s) |-> F(s[k])]

MapSeq(s, F(_)) == CHOOSE r \in {MapSeqV(x, F) : x \in {s}} : TRUE

\* triangle with its vertices tri = <<v1, v2, v3>> and triangle_area bound.
TriangleV(tri, triangle_area) ==
    LET a == tri[1].transformed_position
        b == tri[2].transformed_position
        c == tri[3].transformed_position
        WeightsOf(p) == barycentric_coordinates(PixelCenter(p[1], p[2]), a, b, c,
                                                triangle_area)
        \* one iteration of the loop body: the fragments pushed for pixel p
        Body(p) == LET Push(w) == IF InsideTest(w) THEN <<FragmentOf(tri, p[1], p[2], w)>>
                                  ELSE <<>>
                   IN  Let1(WeightsOf(p), Push)
    IN  MapSeq(BoxPixels(calculate_bounding_box(a, b, c)), Body)

RECURSIVE Concat(_, _)
\* The concatenation of the sequences ss[k], ss[k+1], ...
Concat(ss, k) == IF k > Len(ss) THEN <<>> ELSE ss[k] \o Concat(ss, k + 1)

triangle(v1, v2, v3) ==
    LET Area(tri) == edge_function(tri[1].transformed_position,
                                   tri[2].transformed_position,
                                   tri[3].transformed_position)
        Run(tri) == Let2(tri, Area(tri), TriangleV)
        Flat(pushed) == Concat(pushed, 1)
    IN  Let1(Let1(<<v1, v2, v3>>, Run), Flat)

----------------------------------------------------------------------------
(* Framebuffer                                                             *)

\* Framebuffer::new(width, height)
FramebufferNew(width, height) ==
    [width |-> width,
     height |-> height,
     buffer |-> Array([i \in 0..(width * height - 1) |-> U32(0)]),
     zbuffer |-> Array([i \in 0..(width * height - 1) |-> INFINITY]),
     background_color |-> U32(0),
     current_color |-> U32(16777215)]

ClearV(fb) ==
    [fb EXCEPT !.buffer = Array([i \in DOMAIN fb.buffer |-> fb.background_color]),
               !.zbuffer = Array([i \in DOMAIN fb.zbuffer |-> INFINITY])]

\* A clear that resets the colours and keeps the depths.
ClearColorOnlyV(fb) ==
    [fb EXCEPT !.buffer = Array([i \in DOMAIN fb.buffer |-> fb.background_color])]

ClearColorOnly(fb) == Let1(fb, ClearColorOnlyV)

clear(fb) == Let1(fb, ClearV)

set_background_color(fb, color) == [fb EXCEPT !.background_color = color]

set_current_color(fb, color) == [fb EXCEPT !.current_color = color]

PointV(fb, x, y, depth) ==
    IF x < fb.width /\ y < fb.height
    THEN LET index == y * fb.width + x
         IN  IF QLt(depth, fb.zbuffer[index])
             THEN [fb EXCEPT !.buffer[index] = fb.current_color,
                             !.zbuffer[index] = depth]
             ELSE fb
    ELSE fb

\* A depth test that also passes on equal depth.
PointLeqV(fb, x, y, depth) ==
    IF x < fb.width /\ y < fb.height
    THEN LET index == y * fb.width + x
         IN  IF QLe(depth, fb.zbuffer[index])
             THEN [fb EXCEPT !.buffer[index] = fb.current_color,
                             !.zbuffer[index] = depth]
             ELSE fb
    ELSE fb

PointLeq(fb, x, y, depth) ==
    LET P(f, d) == PointLeqV(f, x, y, d)
    IN  Let2(fb, depth, P)

point(fb, x, y, depth) ==
    LET P(f, d) == PointV(f, x, y, d)
    IN  Let2(fb, depth, P)

set_pixel_raw(fb, x, y, color) ==
    IF x < fb.width /\ y < fb.height
    THEN [fb EXCEPT !.buffer[y * fb.width + x] = color]
    ELSE fb

----------------------------------------------------------------------------
(* The draw call (main.rs)                                                 *)

\* The loop indices `(0..len).step_by(3)`.
StepBy3(len) == <<>> \o [k \in 1..((len + 2) \div 3) |-> 3 * (k - 1)]

TrianglesV(transformed_vertices) ==
    LET len == Len(transformed_vertices)
        Complete(i) == i + 2 < len
        Tri(i) == <<transformed_vertices[i + 1],
                    transformed_vertices[i + 2],
                    transformed_vertices[i + 3]>>
    IN  MapSeq(SelectSeq(StepBy3(len), Complete), Tri)

\* A grouping whose completeness test is off by one: i + 3 < len.
TrianglesOffByOneV(transformed_vertices) ==
    LET len == Len(transformed_vertices)
        Complete(i) == i + 3 < len
        Tri(i) == <<transformed_vertices[i + 1],
                    transformed_vertices[i + 2],
                    transformed_vertices[i + 3]>>
    IN  MapSeq(SelectSeq(StepBy3(len), Complete), Tri)

TrianglesOffByOne(transformed_vertices) == Let1(transformed_vertices, TrianglesOffByOneV)

\* render, lines 115-124: the triangles pushed from the transformed vertices.
Triangles(transformed_vertices) == Let1(transformed_vertices, TrianglesV)

\* render, lines 109-113: the transformed vertices.
TransformedVertices(uniforms, vertex_array) ==
    LET Shade1(v) == vertex_shader(v, uniforms)
    IN  MapSeq(vertex_array, Shade1)

\* render, lines 109-129: the fragments of one draw call.
RenderFragments(uniforms, vertex_array) ==
    LET Tri(t) == triangle(t[1], t[2], t[3])
        Flat(pushed) == Concat(pushed, 1)
    IN  Let1(MapSeq(Triangles(TransformedVertices(uniforms, vertex_array)), Tri), Flat)

WriteFragmentV(fb, fragment) ==
    LET x == AsUsize(fragment.position.x)
        y == AsUsize(fragment.position.y)
    IN  IF x < fb.width /\ y < fb.height
        THEN point(set_current_color(fb, ToHex(fragment.color)), x, y, fragment.depth)
        ELSE fb

\* A write loop that stores the colour without the depth test.
WriteFragmentRawV(fb, fragment) ==
    LET x == AsUsize(fragment.position.x)
        y == AsUsize(fragment.position.y)
    IN  IF x < fb.width /\ y < fb.height
        THEN set_pixel_raw(set_current_color(fb, ToHex(fragment.color)), x, y,
                           ToHex(fragment.color))
        ELSE fb

WriteFragmentRaw(fb, fragment) == Let2(fb, fragment, WriteFragmentRawV)

\* render, lines 132-138: one iteration of the write loop.
WriteFragment(fb, fragment) == Let2(fb, fragment, WriteFragmentV)

RECURSIVE WriteFragments(_, _, _)
\* render, lines 131-139: the write loop from fragment k on.
WriteFragments(fb, fragments, k) ==
    IF k > Len(fragments) THEN fb
    ELSE LET Rest(fb1) == WriteFragments(fb1, fragments, k + 1)
         IN  Let1(WriteFragment(fb, fragments[k]), Rest)

render(fb, uniforms, vertex_array) ==
    LET Write(fragments) == WriteFragments(fb, fragments, 1)
    IN  Let1(RenderFragments(uniforms, vertex_array), Write)

RECURSIVE StarLoop(_, _, _, _)
\* draw_star_skybox, lines 283-300, from cell k (row by row) on: a cell in
\* `stars` is one whose noise exceeds 0.996.
StarLoop(fb, stars, color, k) ==
    IF k >= fb.width * fb.height THEN fb
    ELSE LET x == k % fb.width
             y == k \div fb.width
             Rest(fb1) == StarLoop(fb1, stars, color, k + 1)
         IN  Let1(IF <<x, y>> \in stars THEN set_pixel_raw(fb, x, y, color) ELSE fb, Rest)

RECURSIVE StarLoopPoint(_, _, _, _)
\* A starfield drawn through the depth-tested point at depth 0.
StarLoopPoint(fb, stars, color, k) ==
    IF k >= fb.width * fb.height THEN fb
    ELSE LET x == k % fb.width
             y == k \div fb.width
             Rest(fb1) == StarLoopPoint(fb1, stars, color, k + 1)
         IN  Let1(IF <<x, y>> \in stars
                  THEN point(set_current_color(fb, color), x, y, I(0))
                  ELSE fb, Rest)

DrawStarsDepthTested(fb, stars, color) == StarLoopPoint(fb, stars, color, 0)

draw_star_skybox(fb, stars, color) == StarLoop(fb, stars, color, 0)

----------------------------------------------------------------------------
(* The framebuffer and its draw calls as a state machine                   *)

FbWidth == 3

FbHeight == 3

MaxOps == 3

\* The colours main.rs passes: set_background_color(0x000000),
\* set_current_color(0xFFDDDD), and one further background.
BackgroundColors == {U32(1)}
CurrentColors == {U32(16768477)}

\* A star of draw_star_skybox and a pixel of draw_warp_overlay.
StarColor == U32(14737632)

\* Coordinates and depths for direct point and set_pixel_raw calls: one
\* cell inside, one past the right edge, one past the bottom edge.
PointArgs ==
    {<<1, 2, I(1)>>, <<1, 2, I(2)>>, <<FbWidth, 1, I(1)>>, <<1, FbHeight, I(1)>>}

RawArgs == {<<1, 2>>, <<FbWidth, 1>>}

\* The sets of cells draw_star_skybox may find above its noise threshold.
StarSets == {{<<0, 1>>}, {<<1, 0>>, <<2, 2>>}}

UpNormal == V3(0, 0, 1)

VertexArray(positions) ==
    <<>> \o [k \in 1..Len(positions) |->
               Vertex(V3(positions[k][1], positions[k][2], positions[k][3]), UpNormal)]

\* Two triangles over the same footprint at depths 1 and 5, a triangle
\* wholly left of the screen, and a triangle whose depth varies.
NearTriangle == VertexArray(<<<<0, 0, 1>>, <<2, 0, 1>>, <<0, 2, 1>>>>)

FarTriangle == VertexArray(<<<<0, 0, 5>>, <<2, 0, 5>>, <<0, 2, 5>>>>)

OffTriangle == VertexArray(<<<<-3, 0, 2>>, <<-1, 0, 2>>, <<-3, 2, 2>>>>)

SlopeTriangle == VertexArray(<<<<0, 0, 0>>, <<2, 0, 2>>, <<0, 2, 4>>>>)

SceneArrays == {NearTriangle, FarTriangle, OffTriangle, SlopeTriangle}

SceneUniforms == {Uniforms(create_model_matrix(V3(0, 0, 0), I(1), NoRotation))}

ShaderKeys == {2}

Log(entry) == Append(drawn, entry)

\* The shading globals at program start: NOISE_SEED is 0; the light is the
\* one main passes in single-planet mode.
InitShading ==
    /\ NOISE_SEED = 0
    /\ LIGHT_DIRECTION = <<6, 7, 3>>
    /\ LIGHT_INTENSITY = I(1)

Init ==
    /\ framebuffer = set_background_color(FramebufferNew(FbWidth, FbHeight), U32(0))
    /\ CURRENT_SHADER = 0
    /\ nops = 0
    /\ InitShading
    /\ frame = [pc |-> "startup"]
    /\ last = [op |-> "init"]
    /\ drawn = <<>>

Clear ==
    /\ nops < MaxOps
    /\ framebuffer' = clear(framebuffer)
    /\ last' = [op |-> "clear", pre |-> framebuffer]
    /\ drawn' = <<[op |-> "clear"]>>
    /\ nops' = nops + 1
    /\ UNCHANGED light_and_frame
    /\ UNCHANGED CURRENT_SHADER

SetBackgroundColor(color) ==
    /\ nops < MaxOps
    /\ framebuffer' = set_background_color(framebuffer, color)
    /\ last' = [op |-> "set_background_color", color |-> color, pre |-> framebuffer]
    /\ drawn' = Log([op |-> "set_background_color"])
    /\ nops' = nops + 1
    /\ UNCHANGED light_and_frame
    /\ UNCHANGED CURRENT_SHADER

SetCurrentColor(color) ==
    /\ nops < MaxOps
    /\ framebuffer' = set_current_color(framebuffer, color)
    /\ last' = [op |-> "set_current_color", color |-> color, pre |-> framebuffer]
    /\ drawn' = Log([op |-> "set_current_color"])
    /\ nops' = nops + 1
    /\ UNCHANGED light_and_frame
    /\ UNCHANGED CURRENT_SHADER

Point(x, y, depth) ==
    /\ nops < MaxOps
    /\ framebuffer' = point(framebuffer, x, y, depth)
    /\ last' = [op |-> "point", x |-> x, y |-> y, depth |-> depth, pre |-> framebuffer]
    /\ drawn' = Log([op |-> "point"])
    /\ nops' = nops + 1
    /\ UNCHANGED light_and_frame
    /\ UNCHANGED CURRENT_SHADER

SetPixelRaw(x, y, color) ==
    /\ nops < MaxOps
    /\ framebuffer' = set_pixel_raw(framebuffer, x, y, color)
    /\ last' = [op |-> "set_pixel_raw", x |-> x, y |-> y, color |-> color,
                pre |-> framebuffer]
    /\ drawn' = Log([op |-> "set_pixel_raw"])
    /\ nops' = nops + 1
    /\ UNCHANGED light_and_frame
    /\ UNCHANGED CURRENT_SHADER

Render(uniforms, vertex_array) ==
    /\ nops < MaxOps
    /\ framebuffer' = render(framebuffer, uniforms, vertex_array)
    /\ last' = [op |-> "render", uniforms |-> uniforms, vertex_array |-> vertex_array,
                shader |-> CURRENT_SHADER, pre |-> framebuffer]
    /\ drawn' = Log([op |-> "render", uniforms |-> uniforms,
                     vertex_array |-> vertex_array, shader |-> CURRENT_SHADER])
    /\ nops' = nops + 1
    /\ UNCHANGED light_and_frame
    /\ UNCHANGED CURRENT_SHADER

DrawStarSkybox(stars) ==
    /\ nops < MaxOps
    /\ framebuffer' = draw_star_skybox(framebuffer, stars, StarColor)
    /\ last' = [op |-> "draw_star_skybox", stars |-> stars, pre |-> framebuffer]
    /\ drawn' = Log([op |-> "draw_star_skybox", stars |-> stars])
    /\ nops' = nops + 1
    /\ UNCHANGED light_and_frame
    /\ UNCHANGED CURRENT_SHADER

SetShaderIndex(idx) ==
    /\ nops < MaxOps
    /\ CURRENT_SHADER' = idx
    /\ last' = [op |-> "set_shader_index", idx |-> idx, pre |-> framebuffer]
    /\ drawn' = Log([op |-> "set_shader_index"])
    /\ nops' = nops + 1
    /\ UNCHANGED light_and_frame
    /\ UNCHANGED framebuffer

Next ==
    \/ Clear
    \/ \E color \in BackgroundColors : SetBackgroundColor(color)
    \/ \E color \in CurrentColors : SetCurrentColor(color)
    \/ \E a \in PointArgs : Point(a[1], a[2], a[3])
    \/ \E a \in RawArgs : SetPixelRaw(a[1], a[2], StarColor)
    \/ \E stars \in StarSets : DrawStarSkybox(stars)
    \/ \E u \in SceneUniforms, va \in SceneArrays : Render(u, va)
    \/ \E idx \in ShaderKeys : SetShaderIndex(idx)

Spec == Init /\ [][Next]_vars

----------------------------------------------------------------------------
(* One draw call on vertex arrays of every length                          *)

MaxVerts == 6

\* The positions the vertex arrays are built from.
PoolPositions == <<<<0, 0, 1>>, <<2, 0, 1>>, <<0, 2, 1>>>>

PoolVertices == {VertexArray(PoolPositions)[k] : k \in 1..Len(PoolPositions)}

DrawArrays == UNION {[1..n -> PoolVertices] : n \in 0..MaxVerts}

InitDraw ==
    /\ framebuffer = clear(set_background_color(FramebufferNew(FbWidth, FbHeight), U32(0)))
    /\ CURRENT_SHADER = 0
    /\ nops = 0
    /\ InitShading
    /\ frame = [pc |-> "startup"]
    /\ \E u \in SceneUniforms, va \in DrawArrays :
          last = [op |-> "render_args", uniforms |-> u, vertex_array |-> <<>> \o va]
    /\ drawn = <<[op |-> "clear"]>>

CallRender ==
    /\ last.op = "render_args"
    /\ framebuffer' = render(framebuffer, last.uniforms, last.vertex_array)
    /\ last' = [op |-> "render", uniforms |-> last.uniforms,
                vertex_array |-> last.vertex_array,
                triangles |-> Triangles(TransformedVertices(last.uniforms,
                                                            last.vertex_array)),
                shader |-> CURRENT_SHADER, pre |-> framebuffer]
    /\ drawn' = Log([op |-> "render", uniforms |-> last.uniforms,
                     vertex_array |-> last.vertex_array, shader |-> CURRENT_SHADER])
    /\ nops' = nops + 1
    /\ UNCHANGED light_and_frame
    /\ UNCHANGED CURRENT_SHADER

NextDraw == CallRender

SpecDraw == InitDraw /\ [][NextDraw]_vars

----------------------------------------------------------------------------
(* triangle() on every triangle of a small grid                            *)

TriMax == 2

\* Screen coordinates k/2, which put vertices on pixel centres, pixel
\* corners and in between.
TriCoords == {Q(k, 2) : k \in -1..TriMax}

\* A transformed vertex at (x, y, z); its object-space position is the same.
GridVertex(x, y, z) ==
    [Vertex(Vec3(x, y, I(z)), UpNormal) EXCEPT !.transformed_position = Vec3(x, y, I(z))]

InitTri ==
    /\ framebuffer = clear(set_background_color(FramebufferNew(FbWidth, FbHeight), U32(0)))
    /\ CURRENT_SHADER = 0
    /\ nops = 0
    /\ InitShading
    /\ frame = [pc |-> "startup"]
    /\ \E x1 \in TriCoords, y1 \in TriCoords, x2 \in TriCoords, y2 \in TriCoords,
          x3 \in TriCoords, y3 \in TriCoords :
          last = [op |-> "triangle_args",
                  v1 |-> GridVertex(x1, y1, 1),
                  v2 |-> GridVertex(x2, y2, 3),
                  v3 |-> GridVertex(x3, y3, 5)]
    /\ drawn = <<>>

CallTriangle ==
    /\ last.op = "triangle_args"
    /\ last' = [op |-> "triangle", v1 |-> last.v1, v2 |-> last.v2, v3 |-> last.v3,
                fragments |-> triangle(last.v1, last.v2, last.v3)]
    /\ nops' = nops + 1
    /\ UNCHANGED light_and_frame
    /\ UNCHANGED <<framebuffer, CURRENT_SHADER, drawn>>

NextTri == CallTriangle

SpecTri == InitTri /\ [][NextTri]_vars

----------------------------------------------------------------------------
(* vertex_shader on a set of vertices and model matrices                   *)

VsMax == 1

VsCoords == -1..VsMax

VsNormals == {V3(0, 0, 1), V3(1, 2, 3)}

VsVertices ==
    {Vertex(V3(x, y, z), n) : x \in VsCoords, y \in VsCoords, z \in VsCoords, n \in VsNormals}

\* Model matrices: the identity and a scaled translation as create_model_matrix
\* builds them, a non-uniform scale with shear, a quarter turn about z, a
\* singular matrix, and a matrix whose last row makes w = z + 2.
VsMatrices ==
    {create_model_matrix(V3(0, 0, 0), I(1), NoRotation),
     create_model_matrix(V3(3, 2, 0), I(2), NoRotation),
     Mat4New(<<I(1), I(1), I(0), I(0),
               I(0), I(2), I(0), I(0),
               I(0), I(0), I(4), I(0),
               I(0), I(0), I(0), I(1)>>),
     Mat4New(<<I(0), I(-1), I(0), I(0),
               I(1), I(0), I(0), I(0),
               I(0), I(0), I(1), I(0),
               I(0), I(0), I(0), I(1)>>),
     Mat4New(<<I(1), I(2), I(0), I(0),
               I(2), I(4), I(0), I(0),
               I(0), I(0), I(1), I(0),
               I(0), I(0), I(0), I(1)>>),
     Mat4New(<<I(1), I(0), I(0), I(0),
               I(0), I(1), I(0), I(0),
               I(0), I(0), I(1), I(0),
               I(0), I(0), I(1), I(2)>>)}

InitVS ==
    /\ framebuffer = clear(set_background_color(FramebufferNew(FbWidth, FbHeight), U32(0)))
    /\ CURRENT_SHADER = 0
    /\ nops = 0
    /\ InitShading
    /\ frame = [pc |-> "startup"]
    /\ \E v \in VsVertices, m \in VsMatrices :
          last = [op |-> "vertex_shader_args", vertex |-> v, uniforms |-> Uniforms(m)]
    /\ drawn = <<>>

CallVertexShader ==
    /\ last.op = "vertex_shader_args"
    /\ last' = [op |-> "vertex_shader", vertex |-> last.vertex, uniforms |-> last.uniforms,
                out |-> vertex_shader(last.vertex, last.uniforms)]
    /\ nops' = nops + 1
    /\ UNCHANGED light_and_frame
    /\ UNCHANGED <<framebuffer, CURRENT_SHADER, drawn>>

NextVS == CallVertexShader

SpecVS == InitVS /\ [][NextVS]_vars

----------------------------------------------------------------------------
(* shade() and the shading globals, as the orchestrator drives them         *)

MaxStyleKey == 8

MaxSeed == 1

\* The keys set_shader_index is given: 0..6 for the seven styles, 7 for the
\* outermost planet, 8 for the ship.
StyleKeys == 0..MaxStyleKey

NoiseSeeds == 0..MaxSeed

\* Shading positions and (normalized) normals, the latter as directions.
ShadePositions == {V3(0, 0, 0), V3(1, 2, 3)}

ShadeNormals == {<<0, 0, 1>>}

\* The lights main passes: towards the viewer (ship), and (0.6, 0.7, 0.3)
\* normalized (single-planet mode), as directions; intensities 1.0 and 1.2.
LightDirections == {<<0, 0, 1>>, <<6, 7, 3>>}

LightIntensities == {I(1), Q(6, 5)}

\* One step of the orchestrator: the entry is logged.
ShadeStep(entry) ==
    /\ nops < MaxOps
    /\ nops' = nops + 1
    /\ last' = entry
    /\ drawn' = Append(drawn, entry)
    /\ UNCHANGED frame

\* set_shader_index(idx): CURRENT_SHADER.store(idx)
StoreShaderIndex(idx) ==
    /\ ShadeStep([op |-> "set_shader_index", idx |-> idx])
    /\ CURRENT_SHADER' = idx
    /\ UNCHANGED <<framebuffer, NOISE_SEED, LIGHT_DIRECTION, LIGHT_INTENSITY>>

\* set_noise_seed(seed): NOISE_SEED.store(seed)
SetNoiseSeed(seed) ==
    /\ ShadeStep([op |-> "set_noise_seed", seed |-> seed])
    /\ NOISE_SEED' = seed
    /\ UNCHANGED <<framebuffer, CURRENT_SHADER, LIGHT_DIRECTION, LIGHT_INTENSITY>>

\* set_light_direction(dir), which main.rs calls and shaders.rs does not define.
SetLightDirection(dir) ==
    /\ ShadeStep([op |-> "set_light_direction", dir |-> dir])
    /\ LIGHT_DIRECTION' = dir
    /\ UNCHANGED <<framebuffer, CURRENT_SHADER, NOISE_SEED, LIGHT_INTENSITY>>

\* set_light_intensity(intensity), which main.rs calls and shaders.rs does not define.
SetLightIntensity(intensity) ==
    /\ ShadeStep([op |-> "set_light_intensity", intensity |-> intensity])
    /\ LIGHT_INTENSITY' = intensity
    /\ UNCHANGED <<framebuffer, CURRENT_SHADER, NOISE_SEED, LIGHT_DIRECTION>>

\* The log entry of a call shade(pos, normal) under the globals in force.
ShadeEntry(pos, normal) ==
    [op |-> "shade", pos |-> pos, normal |-> normal,
     style |-> CURRENT_SHADER, seed |-> NOISE_SEED,
     light_direction |-> LIGHT_DIRECTION, light_intensity |-> LIGHT_INTENSITY,
     color |-> shade(pos, normal)]

\* A call of shade that also advances the noise seed.
CallShadeReseeding(pos, normal) ==
    /\ ShadeStep(ShadeEntry(pos, normal))
    /\ NOISE_SEED' = (NOISE_SEED + 1) % (MaxSeed + 1)
    /\ UNCHANGED <<framebuffer, CURRENT_SHADER, LIGHT_DIRECTION, LIGHT_INTENSITY>>

\* shade(pos, normal): the globals are loaded, never stored.
CallShade(pos, normal) ==
    /\ ShadeStep(ShadeEntry(pos, normal))
    /\ UNCHANGED <<framebuffer, CURRENT_SHADER, NOISE_SEED, LIGHT_DIRECTION,
                   LIGHT_INTENSITY>>

\* A draw call between the orchestrator's settings.
DrawCall(uniforms, vertex_array) ==
    /\ ShadeStep([op |-> "render", uniforms |-> uniforms, vertex_array |-> vertex_array])
    /\ framebuffer' = render(framebuffer, uniforms, vertex_array)
    /\ UNCHANGED <<CURRENT_SHADER, NOISE_SEED, LIGHT_DIRECTION, LIGHT_INTENSITY>>

InitShade ==
    /\ framebuffer = clear(set_background_color(FramebufferNew(FbWidth, FbHeight), U32(0)))
    /\ CURRENT_SHADER = 0
    /\ InitShading
    /\ frame = [pc |-> "startup"]
    /\ nops = 0
    /\ last = [op |-> "init"]
    /\ drawn = <<>>

NextShade ==
    \/ \E idx \in StyleKeys : StoreShaderIndex(idx)
    \/ \E seed \in NoiseSeeds : SetNoiseSeed(seed)
    \/ \E dir \in LightDirections : SetLightDirection(dir)
    \/ \E intensity \in LightIntensities : SetLightIntensity(intensity)
    \/ \E pos \in ShadePositions, normal \in ShadeNormals : CallShade(pos, normal)
    \/ \E u \in SceneUniforms : DrawCall(u, NearTriangle)

SpecShade == InitShade /\ [][NextShade]_vars

----------------------------------------------------------------------------
(* The value the shading functions return (shaders.rs)                     *)
(*                                                                         *)
(* The colour model above keeps a colour as a term.  Here the shading      *)
(* functions are computed on numbers.  A sine or cosine of a finite        *)
(* argument is some value in [-1, 1], drawn from TrigSamples by the        *)
(* caller; of an infinite or NaN argument it is NaN, as in IEEE.  Inputs   *)
(* are vectors v * 2^e (Scaled), so that magnitudes near the ends of the   *)
(* f32 range can be written: a result of magnitude 2^128 or more rounds    *)
(* to an infinity and a non-zero result far below 2^-150 rounds to zero.   *)

\* Finite f32 values are below 2^F32_MAX_EXP in magnitude (f32::MAX is
\* (2 - 2^-23) * 2^127); positive values below 2^F32_MIN_EXP round to zero.
F32_MAX_EXP == 128

F32_MIN_EXP == -150

\* Mantissas of the model are below 2^MantissaBits.
MantissaBits == 30

RECURSIVE Pow2(_)
Pow2(k) == IF k <= 0 THEN 1 ELSE 2 * Pow2(k - 1)

\* The vector v * 2^e.
Scaled(v, e) == [v |-> v, e |-> e]

\* The f32 result of an operation whose exact result is x * 2^e.
F32RoundV(x, e) ==
    IF ~IsFinite(x) \/ x.n = 0 THEN x
    ELSE IF e > F32_MAX_EXP - MantissaBits /\ e <= F32_MAX_EXP
                /\ Abs(x.n) >= Pow2(F32_MAX_EXP - e) * x.d
         THEN [n |-> Sgn(x.n), d |-> 0]
    ELSE IF e < F32_MIN_EXP - MantissaBits THEN I(0)
    ELSE x

F32Round(x, e) == Let2(x, e, F32RoundV)

\* f32::abs
AbsV(a) == [n |-> Abs(a.n), d |-> a.d]

QAbs(a) == Let1(a, AbsV)

\* f32::clamp(lo, hi): a NaN stays a NaN.
ClampV(a, lo, hi) == IF LtV(a, lo) THEN lo ELSE IF LtV(hi, a) THEN hi ELSE a

Clamp(a, lo, hi) == Let3(a, lo, hi, ClampV)

Clamp01(a) == Clamp(a, I(0), I(1))

\* The largest r with r * r <= k.
ISqrt(k) == CHOOSE r \in 0..k : r * r <= k /\ (r + 1) * (r + 1) > k

\* f32::sqrt, exact on the quotients of squares (which the inputs produce).
SqrtV(a) ==
    IF IsNaN(a) \/ a.n < 0 THEN NAN
    ELSE IF a.d = 0 THEN a
    ELSE Q(ISqrt(a.n), ISqrt(a.d))

\* f32::powf(k) for the integer exponent k = 3.
Cube(a) == QMul(a, QMul(a, a))

\* f32::powf(k) for a positive exponent k that is no integer (1.2, 1.6,
\* 2.2, 2.5, 2.8): NaN of a negative finite base, +inf of either infinity,
\* 0 of 0 and 1 of 1.  A base strictly between 0 and 1 gives a value
\* strictly between 0 and 1, and a base above 1 a finite value above 1:
\* the model keeps the base there.
PowfV(a) ==
    IF IsNaN(a) THEN NAN
    ELSE IF a.d = 0 THEN INFINITY
    ELSE IF a.n < 0 THEN NAN
    ELSE a

Powf(a) == Let1(a, PowfV)

\* glm::dot of two vectors of f32 values.
VDotV(u, v) == AddV(AddV(MulV(u.x, v.x), MulV(u.y, v.y)), MulV(u.z, v.z))

VDot(u, v) == Let2(u, v, VDotV)

\* normal.normalize() on numbers: every component divided by
\* sqrt(x*x + y*y + z*z), each square and sum rounded to f32.
UnitV(s) ==
    LET sq(c) == F32RoundV(MulV(c, c), 2 * s.e)
        norm_squared == F32RoundV(AddV(AddV(sq(s.v.x), sq(s.v.y)), sq(s.v.z)), 2 * s.e)
        norm == SqrtV(norm_squared)
    IN  Vec3(DivV(s.v.x, norm), DivV(s.v.y, norm), DivV(s.v.z, norm))

Unit(s) == Let1(s, UnitV)

\* The three noise directions Vec3::new(..).normalize() of the shaders;
\* each has a length within 0.3 % of 1 before it is normalized, and the
\* model keeps the components as written.
NoiseDir1 == Vec3(Q(36, 100), Q(93, 100), Q(4, 100))

NoiseDir2 == Vec3(Q(79, 100), Q(-61, 100), Q(8, 100))

NoiseDir3 == Vec3(Q(-49, 100), Q(12, 100), Q(86, 100))

\* (glm::dot(&p, &dir) * freq) for the position p = v * 2^e.
DotArgV(p, dir, freq) ==
    LET t(a, b) == F32RoundV(MulV(a, b), p.e)
        dot     == F32RoundV(AddV(F32RoundV(AddV(t(p.v.x, dir.x), t(p.v.y, dir.y)), p.e),
                                  t(p.v.z, dir.z)), p.e)
    IN  F32RoundV(MulV(dot, freq), p.e)

DotArg(p, dir, freq) == Let3(p, dir, freq, DotArgV)

\* (c * freq) for the component c of a position v * 2^e.
AxisArg(c, e, freq) == F32Round(QMul(c, freq), e)

\* arg.sin() or arg.cos(), the value at a finite argument being sample.
Trig(arg, sample) == IF IsFinite(arg) THEN sample ELSE NAN

\* What a shader body yields from terms it multiplies and adds into the
\* colour: NaN when a term is NaN, and else a finite value, raw.
Body(terms, raw) == IF \E t \in terms : IsNaN(t) THEN NAN ELSE raw

\* Vec3::new(color.x.clamp(0.0, 1.0), color.y.clamp(0.0, 1.0), color.z.clamp(0.0, 1.0))
ClampColor(color) == Vec3(Clamp01(color.x), Clamp01(color.y), Clamp01(color.z))

\* The last line of the six styles that clamp.
FinalClamp(color) == ClampColor(color)

Gray(c) == Vec3(c, c, c)

\* planet_shader_gas: the band (n.y * 14 and the warp), the streaks and the
\* rim enter the colour; the result is clamped.
planet_shader_gas_rgb(pos, normal, trig, raw) ==
    LET n        == Unit(normal)
        warp     == Trig(DotArg(pos, NoiseDir1, Q(9, 10)), trig.s)
        band     == QAdd(QMul(n.y, I(14)), warp)
        band_val == Powf(QAdd(QMul(Trig(band, trig.s), Q(1, 2)), Q(1, 2)))
        streak   == QAdd(QMul(QAbs(Trig(DotArg(pos, NoiseDir2, I(6)), trig.s)), Q(1, 4)),
                         QMul(QAbs(Trig(DotArg(pos, NoiseDir3, Q(17, 2)), trig.s)), Q(3, 20)))
        rim      == Powf(QSub(I(1), n.z))
    IN  FinalClamp(Gray(Body({band_val, streak, rim}, raw)))

\* planet_shader_rock: the height (f4, f5, f6) and the slope enter the
\* albedo; the lambert term is NaN-free through max(0.0).
planet_shader_rock_rgb(pos, normal, trig, raw) ==
    LET n      == Unit(normal)
        f4     == QAbs(Trig(DotArg(pos, NoiseDir1, I(2)), trig.s))
        f5     == QAbs(Trig(DotArg(pos, NoiseDir2, Q(33, 10)), trig.s))
        f6     == QAbs(Trig(DotArg(pos, NoiseDir3, Q(51, 10)), trig.s))
        f1     == Trig(DotArg(pos, NoiseDir1, Q(1, 4)), trig.s)
        f2     == Trig(DotArg(pos, NoiseDir2, Q(11, 20)), trig.s)
        f3     == Trig(DotArg(pos, NoiseDir3, Q(11, 10)), trig.s)
        noise_base == QAdd(QMul(QAdd(QAdd(QMul(Q(11, 20), f1), QMul(Q(3, 10), f2)),
                                     QMul(Q(3, 20), f3)), Q(1, 2)), Q(1, 2))
        height == Clamp01(QAdd(QAdd(QMul(Q(1, 2), noise_base), QMul(Q(3, 10), f4)),
                               QMul(Q(1, 5), QAdd(QMul(Q(1, 2), f5), QMul(Q(1, 2), f6)))))
        up     == IF pos.v = V3(0, 0, 0) THEN V3(0, 1, 0) ELSE Unit(pos)
        slope  == Clamp01(QSub(I(1), VDot(n, up)))
    IN  FinalClamp(Gray(Body({height, slope}, raw)))

\* planet_shader_cheese: the vertical gradient and the hole noise.
planet_shader_cheese_rgb(pos, normal, trig, raw) ==
    LET n          == Unit(normal)
        vertical   == Clamp01(QAdd(QMul(n.y, Q(1, 2)), Q(1, 2)))
        hole_noise == QAbs(QMul(QMul(Trig(AxisArg(pos.v.x, pos.e, Q(17, 5)), trig.s),
                                     Trig(AxisArg(pos.v.y, pos.e, Q(41, 10)), trig.c)),
                                Trig(AxisArg(pos.v.z, pos.e, Q(19, 5)), trig.s)))
    IN  FinalClamp(Gray(Body({vertical, hole_noise}, raw)))

\* planet_shader_cat: the vertical gradient and the fur noise.
planet_shader_cat_rgb(pos, normal, trig, raw) ==
    LET n        == Unit(normal)
        vertical == Clamp01(QAdd(QMul(n.y, Q(1, 2)), Q(1, 2)))
        fur      == QMul(QAdd(QMul(QMul(Trig(AxisArg(pos.v.x, pos.e, Q(51, 10)), trig.s),
                                        Trig(AxisArg(pos.v.y, pos.e, Q(63, 10)), trig.c)),
                                   Trig(AxisArg(pos.v.z, pos.e, Q(28, 5)), trig.s)),
                              I(1)), Q(1, 2))
    IN  FinalClamp(Gray(Body({vertical, fur}, raw)))

\* planet_shader_bubblegum: the vertical gradient, the bubbles and the rim.
planet_shader_bubblegum_rgb(pos, normal, trig, raw) ==
    LET n            == Unit(normal)
        vertical     == Clamp01(QAdd(QMul(n.y, Q(1, 2)), Q(1, 2)))
        bubble_noise == QAbs(QMul(QMul(Trig(AxisArg(pos.v.x, pos.e, I(5)), trig.s),
                                       Trig(AxisArg(pos.v.y, pos.e, Q(63, 10)), trig.c)),
                                  Trig(AxisArg(pos.v.z, pos.e, Q(71, 10)), trig.s)))
        rim          == Powf(QSub(I(1), n.z))
    IN  FinalClamp(Gray(Body({vertical, bubble_noise, rim}, raw)))

\* planet_shader_ice: the pole gradient, the sparkles and the rim.
planet_shader_ice_rgb(pos, normal, trig, raw) ==
    LET n       == Unit(normal)
        pole    == QAbs(n.y)
        sparkle == QAbs(QMul(QMul(Trig(AxisArg(pos.v.x, pos.e, Q(17, 2)), trig.s),
                                  Trig(AxisArg(pos.v.y, pos.e, Q(91, 10)), trig.c)),
                             Trig(AxisArg(pos.v.z, pos.e, Q(79, 10)), trig.s)))
        rim     == Powf(QSub(I(1), n.z))
    IN  FinalClamp(Gray(Body({pole, sparkle, rim}, raw)))

\* The last line of planet_shader_sun: an upper bound only.
\* Vec3::new(color.x.min(1.0), color.y.min(1.0), color.z.min(1.0))
SunToneMap(color) == Vec3(QMin(color.x, I(1)), QMin(color.y, I(1)), QMin(color.z, I(1)))

\* planet_shader_sun, statement by statement.
planet_shader_sun_rgb(pos, normal, trig) ==
    LET n        == Unit(normal)
        base     == Vec3(I(1), Q(13, 20), Q(9, 50))
        color0   == VScale(base, Q(17, 20))
        n1       == Trig(DotArg(pos, NoiseDir1, Q(9, 10)), trig.s)
        n2       == Trig(DotArg(pos, NoiseDir2, Q(8, 5)), trig.s)
        n3       == Trig(DotArg(pos, NoiseDir3, Q(23, 10)), trig.s)
        turb     == Clamp01(QAdd(QAdd(QMul(QAbs(n1), Q(1, 2)), QMul(QAbs(n2), Q(3, 10))),
                                 QMul(QAbs(n3), Q(1, 5))))
        color1   == VAdd(color0, VScale(Vec3(I(1), Q(4, 5), Q(9, 20)), QMul(turb, Q(1, 4))))
        flicker  == QMax(QAdd(QMul(QMul(QMul(Trig(AxisArg(pos.v.x, pos.e, Q(3, 25)), trig.s),
                                             Trig(AxisArg(pos.v.y, pos.e, Q(13, 100)), trig.c)),
                                        Trig(AxisArg(pos.v.z, pos.e, Q(11, 100)), trig.s)),
                                   Q(1, 10)), Q(1, 10)), I(0))
        color2   == VAdd(color1, VScale(base, flicker))
        g1       == QAbs(Trig(DotArg(pos, NoiseDir1, Q(4, 5)), trig.s))
        g2       == QAbs(Trig(DotArg(pos, NoiseDir2, Q(6, 5)), trig.s))
        g3       == QAbs(Trig(DotArg(pos, NoiseDir3, Q(8, 5)), trig.s))
        gran     == Clamp01(QAdd(QAdd(QMul(Q(1, 2), g1), QMul(Q(3, 10), g2)), QMul(Q(1, 5), g3)))
        gran_amp == Q(1, 4)
        color3   == VScale(color2, QAdd(QSub(I(1), QMul(gran_amp, Q(3, 5))), QMul(gran_amp, gran)))
        n_low    == QMul(QAdd(QMul(QMul(Trig(AxisArg(pos.v.x, pos.e, Q(2, 25)), trig.s),
                                        Trig(AxisArg(pos.v.y, pos.e, Q(3, 40)), trig.c)),
                                   Trig(AxisArg(pos.v.z, pos.e, Q(13, 200)), trig.s)),
                              I(1)), Q(1, 2))
        t        == Clamp01(QDiv(QSub(Q(1, 2), n_low), Q(3, 20)))
        spots    == Powf(QMul(QMul(t, t), QSub(I(3), QMul(I(2), t))))
        penumbra == QMul(spots, Q(9, 50))
        umbra    == QMul(Powf(spots), Q(9, 50))
        spot_att == QMax(QSub(I(1), QAdd(penumbra, umbra)), Q(11, 20))
        color4   == VScale(color3, spot_att)
        rim      == Cube(QSub(I(1), n.z))
        color5   == VAdd(color4, VScale(Vec3(I(1), Q(3, 5), Q(1, 4)), QMul(rim, Q(1, 5))))
    IN  SunToneMap(color5)

\* shade on numbers: the dispatch of shade with the numeric styles.
shade_rgb(pos, normal, trig, raw) ==
    CASE get_shader_index = 0 -> planet_shader_gas_rgb(pos, normal, trig, raw)
      [] get_shader_index = 1 -> planet_shader_rock_rgb(pos, normal, trig, raw)
      [] get_shader_index = 2 -> planet_shader_sun_rgb(pos, normal, trig)
      [] get_shader_index = 3 -> planet_shader_cheese_rgb(pos, normal, trig, raw)
      [] get_shader_index = 4 -> planet_shader_cat_rgb(pos, normal, trig, raw)
      [] get_shader_index = 5 -> planet_shader_bubblegum_rgb(pos, normal, trig, raw)
      [] get_shader_index = 6 -> planet_shader_ice_rgb(pos, normal, trig, raw)
      [] OTHER                -> planet_shader_gas_rgb(pos, normal, trig, raw)

\* (c * 255.0).clamp(0.0, 255.0): the value triangle() casts to u8.
Scaled255(c) == Clamp(QMul(c, I(255)), I(0), I(255))

\* `as u8` of a value in [0, 255] or NaN: truncation, NaN to 0.
AsU8(a) == IF IsNaN(a) THEN 0 ELSE a.n \div a.d

\* The u8 channels triangle() makes of rgb.
ColorNew(rgb) == <<AsU8(Scaled255(rgb.x)), AsU8(Scaled255(rgb.y)), AsU8(Scaled255(rgb.z))>>

----------------------------------------------------------------------------
(* shade() on numbers, on inputs up to the ends of the f32 range           *)

\* Exponent of the large positions and of the short normals.
LargeExp == 127

SmallExp == -100

RangePositions ==
    {Scaled(V3(0, 0, 0), 0), Scaled(V3(1, 2, 3), 0),
     Scaled(V3(0, 0, 1), LargeExp), Scaled(Vec3(I(0), I(0), Q(3, 2)), LargeExp)}

RangeNormals ==
    {Scaled(V3(0, 0, 1), 0), Scaled(V3(0, 0, -1), 0), Scaled(V3(0, 3, 4), 0),
     Scaled(V3(0, 1, 0), 0), Scaled(V3(0, 0, 1), SmallExp)}

\* Values of a sine or cosine at a finite argument.
TrigSamples == {[s |-> s, c |-> c] : s \in {-1, 0, 1}, c \in {-1, 1}}

TrigOf(sample) == [s |-> I(sample.s), c |-> I(sample.c)]

\* Finite values of a colour channel before the final clamp.
RawSamples == {Q(-1, 2), Q(1, 2), Q(3, 2)}

\* let rgb = shade(interp_pos, interp_norm); Color::new(cr, cg, cb)
ShadeRgb(pos, normal, sample, raw) ==
    /\ nops < MaxOps
    /\ nops' = nops + 1
    /\ \E rgb \in {shade_rgb(pos, normal, TrigOf(sample), raw)} :
          last' = [op |-> "shade_rgb", pos |-> pos, normal |-> normal,
                   style |-> get_shader_index, rgb |-> rgb, lit_color |-> ColorNew(rgb)]
    /\ UNCHANGED <<framebuffer, CURRENT_SHADER, drawn>>
    /\ UNCHANGED light_and_frame

\* set_shader_index(idx) between two fragments' draw calls.
SelectStyle(idx) ==
    /\ nops < MaxOps
    /\ nops' = nops + 1
    /\ CURRENT_SHADER' = idx
    /\ last' = [op |-> "set_shader_index", idx |-> idx]
    /\ UNCHANGED <<framebuffer, drawn>>
    /\ UNCHANGED light_and_frame

InitRange ==
    /\ framebuffer = FramebufferNew(FbWidth, FbHeight)
    /\ CURRENT_SHADER = 0
    /\ InitShading
    /\ frame = [pc |-> "startup"]
    /\ nops = 0
    /\ last = [op |-> "init"]
    /\ drawn = <<>>

NextRange ==
    \/ \E idx \in StyleKeys : SelectStyle(idx)
    \/ \E pos \in RangePositions, normal \in RangeNormals,
          sample \in TrigSamples, raw \in RawSamples : ShadeRgb(pos, normal, sample, raw)

SpecRange == InitRange /\ [][NextRange]_vars

----------------------------------------------------------------------------
(* The frame loop of main and the scene it draws (main.rs)                 *)

MaxFrames == 2

\* The colour draw_warp_overlay computes for the pixel (x, y).
WarpColor(x, y) == U32(<<"warp", x, y>>)

RECURSIVE WarpLoop(_, _)
\* draw_warp_overlay, lines 468-484, from cell k (row by row) on.
WarpLoop(fb, k) ==
    IF k >= fb.width * fb.height THEN fb
    ELSE WarpLoop(set_pixel_raw(fb, k % fb.width, k \div fb.width,
                                WarpColor(k % fb.width, k \div fb.width)), k + 1)

draw_warp_overlay(fb) == WarpLoop(fb, 0)

\* for depth in framebuffer.zbuffer.iter_mut() { *depth = f32::INFINITY; }
ResetDepth(fb) == [fb EXCEPT !.zbuffer = Array([i \in DOMAIN fb.zbuffer |-> INFINITY])]

\* set_shader_index(previous_shader) at the end of render_camera_ship.
RestoreShaderKeepsShip(previous_shader) == 8

RestoreShader(previous_shader) == previous_shader

\* One entry of the planets table of render_solar_system: its style, its
\* translation (in depth) and the light main computes for it.
Planet(shader_idx, z, light_dir, intensity) ==
    [shader_idx |-> shader_idx,
     translation |-> V3(0, 0, z),
     light_dir |-> light_dir,
     intensity |-> intensity]

\* Planet tables: the sun first, then one planet of any style key.
PlanetSystems ==
    {<<Planet(2, 0, <<0, 0, 1>>, Q(11, 10)), Planet(idx, 1, <<1, 0, 0>>, I(1))>> :
        idx \in StyleKeys}

\* A ship triangle that leaves the screen on the right.
EdgeTriangle == VertexArray(<<<<2, 0, 5>>, <<5, 0, 5>>, <<2, 3, 5>>>>)

\* Ship models: behind the planets over their footprint, partly off the
\* right edge, and wholly left of the screen.
ShipArrays == {FarTriangle, EdgeTriangle, OffTriangle}

ShipUniforms == Uniforms(create_model_matrix(V3(0, 0, 0), I(1), NoRotation))

\* Option<T>
None == [some |-> FALSE]

Some(val) == [some |-> TRUE, val |-> val]

WARP_CHARGE_DURATION_MS == 450

\* let frame_delay = Duration::from_millis(16)
FrameDelayMs == 16

\* struct WarpSequence; started_at is an instant in milliseconds.
WarpSequence(pending_offset, started_at) ==
    [pending_offset |-> pending_offset, started_at |-> started_at]

\* The screen of the model has its origin where main puts the scene.
default_translation == V3(0, 0, 0)

\* render_solar_system: let parallax = 0.35
parallax == Q(7, 20)

\* default_translation - camera_offset * parallax
view_offset(camera_offset) ==
    VAdd(default_translation, VScale(camera_offset, QNeg(parallax)))

\* main, line 406: default_translation - camera_offset
SingleTranslation(camera_offset) ==
    VAdd(default_translation, VScale(camera_offset, I(-1)))

\* handle_input, lines 496-507: the translation keys, in the order of the
\* source.  (The zoom and rotation keys change scale, solar_zoom and
\* rotation, which the scenes of the model keep fixed.)
MoveCamera(camera_offset, keys) ==
    LET right == IF keys \cap {"Right", "D"} # {}
                 THEN VAdd(camera_offset, V3(10, 0, 0)) ELSE camera_offset
        left  == IF keys \cap {"Left", "A"} # {} THEN VAdd(right, V3(-10, 0, 0)) ELSE right
        up    == IF keys \cap {"Up", "W"} # {} THEN VAdd(left, V3(0, -10, 0)) ELSE left
    IN  IF keys \cap {"Down", "S"} # {} THEN VAdd(up, V3(0, 10, 0)) ELSE up

\* handle_input, lines 545-576: the style keys in the order of their
\* if statements, each with the index it hands to set_shader_index.
NumberKeysSwapped ==
    <<<<"Key2", 1>>, <<"Key3", 2>>, <<"Key4", 3>>, <<"Key5", 0>>,
      <<"Key6", 4>>, <<"Key7", 5>>, <<"Key8", 6>>, <<"Key9", 7>>>>

NumberKeys ==
    <<<<"Key2", 1>>, <<"Key3", 2>>, <<"Key4", 0>>, <<"Key5", 3>>,
      <<"Key6", 4>>, <<"Key7", 5>>, <<"Key8", 6>>, <<"Key9", 7>>>>

NumberKeyNames == {NumberKeys[k][1] : k \in DOMAIN NumberKeys}

\* The if statements of the style keys, one after the other: each key that
\* is down leaves solar-system mode and sets the style.
RECURSIVE NumberKeyLoop(_, _, _)
NumberKeyLoop(st, keys, k) ==
    IF k > Len(NumberKeys) THEN st
    ELSE NumberKeyLoop(IF NumberKeys[k][1] \in keys
                       THEN [solar_system_mode |-> FALSE, shader |-> NumberKeys[k][2]]
                       ELSE st,
                       keys, k + 1)

\* main, lines 358-365: Space starts a warp when none is active.
SpacePressedRestarts(active_warp, space, sequence) ==
    IF space THEN Some(sequence) ELSE active_warp

SpacePressed(active_warp, space, sequence) ==
    IF space /\ ~active_warp.some THEN Some(sequence) ELSE active_warp

\* main, lines 367-369: event.started_at.elapsed() >= warp_charge_duration
WarpReadyLate(active_warp, now) ==
    /\ active_warp.some
    /\ now - active_warp.val.started_at > WARP_CHARGE_DURATION_MS

WarpReady(active_warp, now) ==
    /\ active_warp.some
    /\ now - active_warp.val.started_at >= WARP_CHARGE_DURATION_MS

\* main, line 373: camera_offset = completed.pending_offset
TakeWarp(camera_offset, completed) == completed.pending_offset

\* main, lines 377-380: the progress of the warp that is still active.
WarpOverlayProgress(active_warp, now) ==
    IF active_warp.some
    THEN Some(Clamp01(QDiv(I(now - active_warp.val.started_at),
                           I(WARP_CHARGE_DURATION_MS))))
    ELSE None

\* The sets of keys that are down during a frame.
KeySets == {{}, {"Key1"}, {"Key2"}}

\* The statement of the loop body that follows the statement at pc.
SuccessorOverlayFirst(pc, f) ==
    CASE pc = "top"           -> "warp"
      [] pc = "warp"          -> "clear"
      [] pc = "clear"         -> "skybox"
      [] pc = "skybox"        -> "overlay"
      [] pc = "overlay"       -> IF f.solar_system_mode THEN "planet" ELSE "single"
      [] pc = "planet"        -> "planet_render"
      [] pc = "planet_render" -> IF f.planet < Len(f.planets) THEN "planet" ELSE "ship"
      [] pc = "ship"          -> "ship_render"
      [] pc = "ship_render"   -> "present"
      [] pc = "single"        -> "present"
      [] pc = "present"       -> "presented"
      [] pc = "presented"     -> "top"

Successor(pc, f) ==
    CASE pc = "top"           -> "warp"
      [] pc = "warp"          -> "clear"
      [] pc = "clear"         -> "skybox"
      [] pc = "skybox"        -> IF f.solar_system_mode THEN "planet" ELSE "single"
      [] pc = "planet"        -> "planet_render"
      [] pc = "planet_render" -> IF f.planet < Len(f.planets) THEN "planet" ELSE "ship"
      [] pc = "ship"          -> "ship_render"
      [] pc = "ship_render"   -> "overlay"
      [] pc = "single"        -> "overlay"
      [] pc = "overlay"       -> "present"
      [] pc = "present"       -> "presented"
      [] pc = "presented"     -> "top"

Goto(f) == [f EXCEPT !.pc = Successor(f.pc, f)]

\* if window.is_key_down(Key::Escape) { break; }
ExitOnEscape ==
    /\ frame.pc = "top"
    /\ frame' = [frame EXCEPT !.pc = "exited"]
    /\ last' = [op |-> "escape", pre |-> framebuffer]
    /\ UNCHANGED <<framebuffer, CURRENT_SHADER, NOISE_SEED, LIGHT_DIRECTION,
                   LIGHT_INTENSITY, nops, drawn>>

\* handle_input: the translation keys, Key1 and the style keys.  The
\* fields keys and number_keys remember the keys of this frame and the
\* style keys of the last frame that had one down.
HandleInput(keys) ==
    /\ frame.pc = "top"
    /\ nops < MaxFrames
    /\ \E st \in {NumberKeyLoop([solar_system_mode |->
                                    IF "Key1" \in keys THEN TRUE
                                    ELSE frame.solar_system_mode,
                                 shader |-> CURRENT_SHADER], keys, 1)} :
          /\ frame' = Goto([frame EXCEPT
                               !.solar_system_mode = st.solar_system_mode,
                               !.camera_offset = MoveCamera(@, keys),
                               !.keys = keys,
                               !.number_keys = IF keys \cap NumberKeyNames # {}
                                               THEN keys \cap NumberKeyNames ELSE @])
          /\ CURRENT_SHADER' = st.shader
    /\ last' = [op |-> "handle_input", keys |-> keys, pre |-> frame]
    /\ UNCHANGED <<framebuffer, NOISE_SEED, LIGHT_DIRECTION, LIGHT_INTENSITY, nops, drawn>>

\* main, lines 358-380: Space starts a warp when none is active, a warp
\* whose charge time has elapsed is taken, and the overlay is drawn while
\* a warp is active.
\* Space is pressed or not, random_warp_offset returns pending_offset, and
\* lag milliseconds pass between Instant::now() and the elapsed() calls.
WarpEvents(space, pending_offset, lag) ==
    /\ frame.pc = "warp"
    /\ \E started \in {SpacePressed(frame.active_warp, space,
                                     WarpSequence(pending_offset, frame.now))},
          now \in {frame.now + lag} :
          \E warp_ready \in {WarpReady(started, now)} :
             \E active_warp \in {IF warp_ready THEN None ELSE started} :
                frame' = Goto([frame EXCEPT
                                  !.active_warp = active_warp,
                                  !.camera_offset = IF warp_ready
                                                    THEN TakeWarp(@, started.val) ELSE @,
                                  !.warp_overlay_progress =
                                      WarpOverlayProgress(active_warp, now),
                                  !.now = now])
    /\ last' = [op |-> "warp", space |-> space, pre |-> frame]
    /\ UNCHANGED <<framebuffer, CURRENT_SHADER, NOISE_SEED, LIGHT_DIRECTION,
                   LIGHT_INTENSITY, nops, drawn>>

\* framebuffer.clear()
ClearFrame ==
    /\ frame.pc = "clear"
    /\ framebuffer' = clear(framebuffer)
    /\ frame' = Goto(frame)
    /\ last' = [op |-> "clear", pre |-> framebuffer]
    /\ drawn' = Log([op |-> "clear", kind |-> "clear"])
    /\ UNCHANGED <<CURRENT_SHADER, NOISE_SEED, LIGHT_DIRECTION, LIGHT_INTENSITY, nops>>

\* draw_star_skybox(&mut framebuffer, elapsed)
DrawSkybox(stars) ==
    /\ frame.pc = "skybox"
    /\ framebuffer' = draw_star_skybox(framebuffer, stars, StarColor)
    /\ frame' = Goto([frame EXCEPT !.planet = 1])
    /\ last' = [op |-> "draw_star_skybox", stars |-> stars, pre |-> framebuffer]
    /\ drawn' = Log([op |-> "draw_star_skybox", kind |-> "raw"])
    /\ UNCHANGED <<CURRENT_SHADER, NOISE_SEED, LIGHT_DIRECTION, LIGHT_INTENSITY, nops>>

\* render_solar_system, lines 243-258: the style and the light of a planet.
PlanetSetup ==
    /\ frame.pc = "planet"
    /\ CURRENT_SHADER' = frame.planets[frame.planet].shader_idx
    /\ LIGHT_DIRECTION' = frame.planets[frame.planet].light_dir
    /\ LIGHT_INTENSITY' = frame.planets[frame.planet].intensity
    /\ frame' = Goto(frame)
    /\ last' = [op |-> "set_shader_index", idx |-> frame.planets[frame.planet].shader_idx]
    /\ UNCHANGED <<framebuffer, NOISE_SEED, nops, drawn>>

\* render_solar_system, line 274: the draw call of a planet.
PlanetRender ==
    /\ frame.pc = "planet_render"
    /\ \E fragments \in {RenderFragments(
                             Uniforms(create_model_matrix(
                                 VAdd(frame.planets[frame.planet].translation,
                                      view_offset(frame.camera_offset)),
                                 I(1), NoRotation)),
                             NearTriangle)} :
          /\ framebuffer' = WriteFragments(framebuffer, fragments, 1)
          /\ drawn' = Log([op |-> "render", kind |-> "depth", of |-> "planet",
                           mode |-> "solar", camera_offset |-> frame.camera_offset,
                           shader |-> get_shader_index, fragments |-> fragments])
    /\ frame' = [Goto(frame) EXCEPT !.planet = frame.planet + 1]
    /\ last' = [op |-> "render_planet", pre |-> framebuffer]
    /\ UNCHANGED <<CURRENT_SHADER, NOISE_SEED, LIGHT_DIRECTION, LIGHT_INTENSITY, nops>>

\* render_camera_ship, lines 435-442: the style and light of the ship and
\* the reset of the depth buffer.
ShipSetup ==
    /\ frame.pc = "ship"
    /\ frame' = Goto([frame EXCEPT !.previous_shader = get_shader_index])
    /\ CURRENT_SHADER' = 8
    /\ LIGHT_DIRECTION' = <<0, 0, 1>>
    /\ LIGHT_INTENSITY' = Q(6, 5)
    /\ framebuffer' = ResetDepth(framebuffer)
    /\ last' = [op |-> "ship_setup", pre |-> framebuffer]
    /\ UNCHANGED <<NOISE_SEED, nops, drawn>>

\* render_camera_ship, lines 444-448: the draw call of the ship and the
\* restoring of the style.
ShipRender ==
    /\ frame.pc = "ship_render"
    /\ \E fragments \in {RenderFragments(ShipUniforms, frame.ship_vertex_array)} :
          /\ framebuffer' = WriteFragments(framebuffer, fragments, 1)
          /\ drawn' = Log([op |-> "render", kind |-> "depth", of |-> "ship",
                           mode |-> "solar", camera_offset |-> frame.camera_offset,
                           shader |-> get_shader_index, fragments |-> fragments,
                           before |-> framebuffer.buffer])
          /\ last' = [op |-> "render_camera_ship", pre |-> framebuffer,
                      shader |-> get_shader_index, fragments |-> fragments]
    /\ CURRENT_SHADER' = RestoreShader(frame.previous_shader)
    /\ frame' = Goto(frame)
    /\ UNCHANGED <<NOISE_SEED, LIGHT_DIRECTION, LIGHT_INTENSITY, nops>>

\* main, lines 404-410: the single-planet scene.
SingleRender ==
    /\ frame.pc = "single"
    /\ LIGHT_DIRECTION' = <<6, 7, 3>>
    /\ LIGHT_INTENSITY' = I(1)
    /\ \E fragments \in {RenderFragments(
                             Uniforms(create_model_matrix(
                                 SingleTranslation(frame.camera_offset),
                                 I(1), NoRotation)),
                             NearTriangle)} :
          /\ framebuffer' = WriteFragments(set_current_color(framebuffer, U32(16768477)),
                                           fragments, 1)
          /\ drawn' = Log([op |-> "render", kind |-> "depth", of |-> "planet",
                           mode |-> "single", camera_offset |-> frame.camera_offset,
                           shader |-> get_shader_index, fragments |-> fragments])
    /\ frame' = Goto(frame)
    /\ last' = [op |-> "render_single", pre |-> framebuffer]
    /\ UNCHANGED <<CURRENT_SHADER, NOISE_SEED, nops>>

\* if let Some(progress) = warp_overlay_progress { draw_warp_overlay(..) }
WarpOverlay ==
    /\ frame.pc = "overlay"
    /\ IF frame.warp_overlay_progress.some
       THEN /\ framebuffer' = draw_warp_overlay(framebuffer)
            /\ drawn' = Log([op |-> "draw_warp_overlay", kind |-> "raw"])
       ELSE UNCHANGED <<framebuffer, drawn>>
    /\ frame' = Goto(frame)
    /\ last' = [op |-> "overlay", drew |-> frame.warp_overlay_progress.some,
                pre |-> framebuffer]
    /\ UNCHANGED <<CURRENT_SHADER, NOISE_SEED, LIGHT_DIRECTION, LIGHT_INTENSITY, nops>>

\* window.update_with_buffer(&framebuffer.buffer, ..)
Present ==
    /\ frame.pc = "present"
    /\ frame' = Goto(frame)
    /\ nops' = nops + 1
    /\ drawn' = Log([op |-> "present", kind |-> "present", buffer |-> framebuffer.buffer])
    /\ last' = [op |-> "present", pre |-> framebuffer]
    /\ UNCHANGED <<framebuffer, CURRENT_SHADER, NOISE_SEED, LIGHT_DIRECTION, LIGHT_INTENSITY>>

\* std::thread::sleep(frame_delay), and the loop goes round: dt
\* milliseconds after the warp events of this pass come those of the next.
NextIteration(dt) ==
    /\ frame.pc = "presented"
    /\ frame' = Goto([frame EXCEPT !.now = @ + dt, !.keys = {}])
    /\ drawn' = <<>>
    /\ last' = [op |-> "sleep"]
    /\ UNCHANGED <<framebuffer, CURRENT_SHADER, NOISE_SEED, LIGHT_DIRECTION,
                   LIGHT_INTENSITY, nops>>

\* main, lines 310-342: the state when the loop is entered.
InitFrame ==
    /\ framebuffer = set_background_color(FramebufferNew(FbWidth, FbHeight), U32(0))
    /\ CURRENT_SHADER = 0
    /\ InitShading
    /\ \E ship \in ShipArrays, planets \in PlanetSystems :
          frame = [pc |-> "top", solar_system_mode |-> TRUE, active_warp |-> None,
                   warp_overlay_progress |-> None, camera_offset |-> V3(0, 0, 0),
                   now |-> 0, keys |-> {}, number_keys |-> {},
                   planet |-> 1, previous_shader |-> 0,
                   ship_vertex_array |-> ship, planets |-> planets]
    /\ nops = 0
    /\ last = [op |-> "init"]
    /\ drawn = <<>>

NextFrame ==
    \/ ExitOnEscape
    \/ \E keys \in KeySets : HandleInput(keys)
    \/ \E space \in BOOLEAN : WarpEvents(space, V3(250, 0, 0), 0)
    \/ ClearFrame
    \/ \E stars \in StarSets : DrawSkybox(stars)
    \/ PlanetSetup
    \/ PlanetRender
    \/ ShipSetup
    \/ ShipRender
    \/ SingleRender
    \/ WarpOverlay
    \/ Present
    \/ NextIteration(WARP_CHARGE_DURATION_MS)

SpecFrame == InitFrame /\ [][NextFrame]_vars

----------------------------------------------------------------------------
(* The main loop under keyboard input (SpecKeys) and under warps and time   *)
(* (SpecWarp): one scene each.                                             *)

\* The sets of keys that are down during a frame: each style key as the
\* highest-numbered one, alone or with lower keys or Key1, and a
\* translation key.
StyleKeySets ==
    {{}, {"Key1"}, {"Key2"}, {"Key2", "Key3"}, {"Key2", "Key4"}, {"Key5"},
     {"Key4", "Key6"}, {"Key1", "Key7"}, {"Key8"}, {"Key1", "Key9"}, {"Right"}}

\* The sets of keys that are down during a frame of a warp.
WarpKeySets == {{}, {"Key2"}, {"Right"}, {"Left", "Down"}}

\* Offsets random_warp_offset can hand out.
WarpOffsets == {V3(250, 0, 0), V3(-300, 40, 0)}

\* Milliseconds from the warp events of one pass of the loop to the key
\* presses of the next: a frame, and just less than the charge time.
FrameTimes == {FrameDelayMs, WARP_CHARGE_DURATION_MS - 1}

\* Milliseconds between Instant::now() of a key press and the elapsed()
\* calls that follow it.
Lags == {0, 1}

InitInput ==
    /\ framebuffer = set_background_color(FramebufferNew(FbWidth, FbHeight), U32(0))
    /\ CURRENT_SHADER = 0
    /\ InitShading
    /\ frame = [pc |-> "top", solar_system_mode |-> TRUE, active_warp |-> None,
                warp_overlay_progress |-> None, camera_offset |-> V3(0, 0, 0),
                now |-> 0, keys |-> {}, number_keys |-> {},
                planet |-> 1, previous_shader |-> 0,
                ship_vertex_array |-> EdgeTriangle,
                planets |-> <<Planet(2, 0, <<0, 0, 1>>, Q(11, 10)),
                              Planet(5, 1, <<1, 0, 0>>, I(1))>>]
    /\ nops = 0
    /\ last = [op |-> "init"]
    /\ drawn = <<>>

NextKeys ==
    \/ ExitOnEscape
    \/ \E keys \in StyleKeySets : HandleInput(keys)
    \/ \E space \in BOOLEAN : WarpEvents(space, V3(250, 0, 0), 0)
    \/ ClearFrame
    \/ DrawSkybox({<<0, 1>>})
    \/ PlanetSetup
    \/ PlanetRender
    \/ ShipSetup
    \/ ShipRender
    \/ SingleRender
    \/ WarpOverlay
    \/ Present
    \/ NextIteration(FrameDelayMs)

SpecKeys == InitInput /\ [][NextKeys]_vars

NextWarp ==
    \/ ExitOnEscape
    \/ \E keys \in WarpKeySets : HandleInput(keys)
    \/ \E space \in BOOLEAN, pending_offset \in WarpOffsets, lag \in Lags :
          WarpEvents(space, pending_offset, lag)
    \/ ClearFrame
    \/ DrawSkybox({<<0, 1>>})
    \/ PlanetSetup
    \/ PlanetRender
    \/ ShipSetup
    \/ ShipRender
    \/ SingleRender
    \/ WarpOverlay
    \/ Present
    \/ \E dt \in FrameTimes : NextIteration(dt)

SpecWarp == InitInput /\ [][NextWarp]_vars

----------------------------------------------------------------------------
(* triangle() on the same three vertices in different orders (SpecPerm)    *)

MaxCalls == 2

\* A transformed vertex at (x, y, 0) with nothing to interpolate.
ScreenVertex(x, y) ==
    [Vertex(V3(0, 0, 0), V3(0, 0, 0)) EXCEPT !.transformed_position = Vec3(x, y, I(0))]

\* Triangles with a vertex on the centre of pixel (0, 0) and the others on
\* points of the 1/4096 grid, where the products of edge_function have
\* more than 24 bits, and triangles of the half-pixel grid, where every
\* operation is exact.
PermTriangles ==
    {<<ScreenVertex(Q(1, 2), Q(1, 2)), ScreenVertex(Q(1949, 2048), Q(9709, 4096)),
       ScreenVertex(Q(2229, 1024), Q(267, 512))>>,
     <<ScreenVertex(Q(1, 2), Q(1, 2)), ScreenVertex(Q(3555, 4096), Q(2113, 2048)),
       ScreenVertex(Q(5505, 2048), Q(3573, 2048))>>,
     <<ScreenVertex(Q(1, 2), Q(1, 2)), ScreenVertex(Q(5, 2), Q(1, 2)),
       ScreenVertex(Q(1, 2), Q(5, 2))>>,
     <<ScreenVertex(I(0), I(0)), ScreenVertex(I(2), Q(1, 2)),
       ScreenVertex(Q(1, 2), I(2))>>}

\* The orders in which three vertices can be handed to triangle().
Orders == {<<1, 2, 3>>, <<1, 3, 2>>, <<2, 1, 3>>, <<2, 3, 1>>, <<3, 1, 2>>, <<3, 2, 1>>}

InitPerm ==
    /\ framebuffer = clear(set_background_color(FramebufferNew(FbWidth, FbHeight), U32(0)))
    /\ CURRENT_SHADER = 0
    /\ nops = 0
    /\ InitShading
    /\ frame = [pc |-> "startup"]
    /\ \E tri \in PermTriangles : last = [op |-> "triangle_args", tri |-> tri]
    /\ drawn = <<>>

\* triangle(v1, v2, v3) on the vertices of last.tri in the order given.
CallPermuted(order) ==
    /\ nops < MaxCalls
    /\ drawn' = Log([op |-> "triangle", order |-> order,
                     fragments |-> triangle(last.tri[order[1]], last.tri[order[2]],
                                            last.tri[order[3]])])
    /\ nops' = nops + 1
    /\ UNCHANGED light_and_frame
    /\ UNCHANGED <<framebuffer, CURRENT_SHADER, last>>

NextPerm == \E order \in Orders : CallPermuted(order)

SpecPerm == InitPerm /\ [][NextPerm]_vars

----------------------------------------------------------------------------
(* Properties of the framebuffer and the draw call (Spec)                  *)

Cells == 0..(FbWidth * FbHeight - 1)

\* The fragment's pixel coordinate lies on the screen.
OnScreen(f) ==
    /\ 0 <= f.position.x.n /\ f.position.x.n < FbWidth
    /\ 0 <= f.position.y.n /\ f.position.y.n < FbHeight

CellOf(f) == f.position.y.n * FbWidth + f.position.x.n

\* The fragments of a logged draw call.
FragmentsOf(draw) == RenderFragments(draw.uniforms, draw.vertex_array)

Positions(fragments) == {fragments[k].position : k \in 1..Len(fragments)}

\* Fragment sequences f and g cover the same on-screen pixels, and at every
\* one of them f is strictly nearer than g.
NearerOnSameFootprint(f, g) ==
    /\ Len(f) > 0
    /\ Positions(f) = Positions(g)
    /\ \A k \in 1..Len(f) : OnScreen(f[k])
    /\ \A k \in 1..Len(f), j \in 1..Len(g) :
          f[k].position = g[j].position => LtV(f[k].depth, g[j].depth)

\* Every pixel of f holds f's colour and depth.
Shows(fb, f) ==
    \A k \in 1..Len(f) :
        /\ fb.buffer[CellOf(f[k])] = ToHex(f[k].color)
        /\ fb.zbuffer[CellOf(f[k])] = f[k].depth

TwoDrawsAfterClear ==
    /\ Len(drawn) = 3
    /\ drawn[1].op = "clear"
    /\ drawn[2].op = "render"
    /\ drawn[3].op = "render"

\* C1: two triangles over the same footprint at different depths, drawn after
\* a clear: every covered pixel holds the colour of the nearer one, whichever
\* was drawn first.
C1_DepthOrderIndependent ==
    TwoDrawsAfterClear =>
        \A first \in {FragmentsOf(drawn[2])}, second \in {FragmentsOf(drawn[3])} :
            /\ NearerOnSameFootprint(first, second) => Shows(framebuffer, first)
            /\ NearerOnSameFootprint(second, first) => Shows(framebuffer, second)

\* The nearer triangle was drawn first and the farther one after it.
C1_Witness_NearThenFar ==
    /\ TwoDrawsAfterClear
    /\ NearerOnSameFootprint(FragmentsOf(drawn[2]), FragmentsOf(drawn[3]))

\* The farther triangle was drawn first and the nearer one after it.
C1_Witness_FarThenNear ==
    /\ TwoDrawsAfterClear
    /\ NearerOnSameFootprint(FragmentsOf(drawn[3]), FragmentsOf(drawn[2]))

\* The framebuffer a point call at in-bounds (x, y) must leave when it writes.
Written(pre, x, y, depth) ==
    [pre EXCEPT !.buffer[y * FbWidth + x] = pre.current_color,
                !.zbuffer[y * FbWidth + x] = depth]

\* C2: point(x, y, depth) writes current_color and depth to cell (x, y) iff
\* (x, y) is in bounds and depth is strictly less than the stored depth;
\* otherwise nothing changes, so an equal depth keeps the earlier colour.
C2_PointWritesIffNearer ==
    last.op = "point" =>
        IF /\ last.x < FbWidth
           /\ last.y < FbHeight
           /\ LtV(last.depth, last.pre.zbuffer[last.y * FbWidth + last.x])
        THEN framebuffer = Written(last.pre, last.x, last.y, last.depth)
        ELSE framebuffer = last.pre

\* A second fragment of equal depth and another colour was rejected.
C2_Witness_EqualDepthRejected ==
    /\ last.op = "point"
    /\ last.x < FbWidth
    /\ last.y < FbHeight
    /\ last.pre.zbuffer[last.y * FbWidth + last.x] = last.depth
    /\ last.pre.current_color # last.pre.buffer[last.y * FbWidth + last.x]
    /\ framebuffer = last.pre

\* C3: fragments whose pixel coordinate lies off the screen are discarded:
\* a draw call leaves the buffers as writing its on-screen fragments alone does.
C3_OffScreenFragmentsDiscarded ==
    last.op = "render" =>
        \A f \in {FragmentsOf(last)} :
            \A expected \in {WriteFragments(last.pre, SelectSeq(f, OnScreen), 1)} :
                /\ framebuffer.buffer = expected.buffer
                /\ framebuffer.zbuffer = expected.zbuffer

\* C4: set_pixel_raw replaces the cell's colour whatever its depth and leaves
\* every depth as it was; the stars drawn right after a clear leave all depths
\* at +infinity, so a later on-screen fragment of finite depth replaces a star.
C4_RawWriteIgnoresDepth ==
    /\ (last.op = "set_pixel_raw" /\ last.x < FbWidth /\ last.y < FbHeight) =>
          /\ framebuffer.buffer =
                [last.pre.buffer EXCEPT ![last.y * FbWidth + last.x] = last.color]
          /\ framebuffer.zbuffer = last.pre.zbuffer
    /\ (last.op = "draw_star_skybox" /\ Len(drawn) = 2 /\ drawn[1].op = "clear") =>
          /\ \A c \in Cells : framebuffer.zbuffer[c] = INFINITY
          /\ \A p \in last.stars : framebuffer.buffer[p[2] * FbWidth + p[1]] = StarColor
    /\ (/\ last.op = "render"
        /\ Len(drawn) = 3
        /\ drawn[1].op = "clear"
        /\ drawn[2].op = "draw_star_skybox") =>
          \A f \in {FragmentsOf(last)} :
              \A k \in 1..Len(f) :
                  (OnScreen(f[k]) /\ IsFinite(f[k].depth)) =>
                      framebuffer.buffer[CellOf(f[k])]
                          \in {ToHex(f[j].color) : j \in 1..Len(f)}

\* A raw write landed on a cell that a point write had given a finite depth.
C4_Witness_RawAfterPoint ==
    /\ last.op = "set_pixel_raw"
    /\ last.x < FbWidth
    /\ last.y < FbHeight
    /\ IsFinite(last.pre.zbuffer[last.y * FbWidth + last.x])
    /\ framebuffer.buffer[last.y * FbWidth + last.x] = last.color
    /\ last.pre.buffer[last.y * FbWidth + last.x] # last.color

\* A triangle drawn after the stars covered a star.
C4_Witness_StarCovered ==
    /\ last.op = "render"
    /\ Len(drawn) = 3
    /\ drawn[1].op = "clear"
    /\ drawn[2].op = "draw_star_skybox"
    /\ \E p \in drawn[2].stars :
          /\ last.pre.buffer[p[2] * FbWidth + p[1]] = StarColor
          /\ framebuffer.buffer[p[2] * FbWidth + p[1]] # StarColor

\* C5: after clear every pixel is the background colour most recently set and
\* every depth is +infinity; both buffers always have width * height cells.
C5_ClearResetsBoth ==
    /\ DOMAIN framebuffer.buffer = Cells
    /\ DOMAIN framebuffer.zbuffer = Cells
    /\ last.op = "set_background_color" => framebuffer.background_color = last.color
    /\ last.op \notin {"init", "set_background_color"} =>
          framebuffer.background_color = last.pre.background_color
    /\ last.op = "clear" =>
          \A c \in Cells :
              /\ framebuffer.buffer[c] = framebuffer.background_color
              /\ framebuffer.zbuffer[c] = INFINITY

\* A clear, with a background other than the initial one, of a framebuffer
\* that held a written pixel and a finite depth.
C5_Witness_ClearAfterWrites ==
    /\ last.op = "clear"
    /\ framebuffer.background_color # U32(0)
    /\ \E c \in Cells :
          /\ IsFinite(last.pre.zbuffer[c])
          /\ last.pre.buffer[c] # framebuffer.background_color
          /\ framebuffer.buffer[c] = framebuffer.background_color

----------------------------------------------------------------------------
(* Properties of the grouping of vertices into triangles (SpecDraw)        *)

\* The fragments of the triples (3k, 3k+1, 3k+2) of vertex_array, k from j on,
\* each triple transformed and rasterized on its own.
RECURSIVE TripleFragments(_, _, _)
TripleFragments(uniforms, vertex_array, j) ==
    IF 3 * j + 3 > Len(vertex_array) THEN <<>>
    ELSE triangle(vertex_shader(vertex_array[3 * j + 1], uniforms),
                  vertex_shader(vertex_array[3 * j + 2], uniforms),
                  vertex_shader(vertex_array[3 * j + 3], uniforms))
         \o TripleFragments(uniforms, vertex_array, j + 1)

\* C6: a draw call of n vertices rasterizes exactly floor(n / 3) triangles,
\* triangle k being vertices (3k, 3k+1, 3k+2); one or two trailing vertices
\* contribute nothing.
C6_VerticesGroupedInThrees ==
    last.op = "render" =>
        LET n == Len(last.vertex_array)
            tv(i) == vertex_shader(last.vertex_array[i], last.uniforms)
        IN  /\ Len(last.triangles) = n \div 3
            /\ \A k \in 0..((n \div 3) - 1) :
                  last.triangles[k + 1] = <<tv(3 * k + 1), tv(3 * k + 2), tv(3 * k + 3)>>
            /\ framebuffer =
                  WriteFragments(last.pre,
                                 TripleFragments(last.uniforms, last.vertex_array, 0), 1)

\* A draw call of one triangle, which reached the screen, and two trailing
\* vertices.
C6_Witness_TrailingDropped ==
    /\ last.op = "render"
    /\ Len(last.vertex_array) = 5
    /\ Len(last.triangles) = 1
    /\ framebuffer # last.pre

\* A draw call of exactly two triangles, the second of which reached the screen.
C6_Witness_TwoTriangles ==
    /\ last.op = "render"
    /\ Len(last.vertex_array) = 6
    /\ Len(last.triangles) = 2
    /\ framebuffer # render(last.pre, last.uniforms, SubSeq(last.vertex_array, 1, 3))

----------------------------------------------------------------------------
(* Properties of triangle() (SpecTri)                                      *)

\* Twice a coordinate of the grid, as an integer.
Twice(q) == (2 * q.n) \div q.d

\* Four times the edge function of a, b and c, in integers.
Edge4(a, b, c) ==
    (Twice(c.x) - Twice(a.x)) * (Twice(b.y) - Twice(a.y))
        - (Twice(c.y) - Twice(a.y)) * (Twice(b.x) - Twice(a.x))

TriA == last.v1.transformed_position
TriB == last.v2.transformed_position
TriC == last.v3.transformed_position

Area4 == Edge4(TriA, TriB, TriC)

\* The pixels any triangle of the grid can reach.
GridPixels == (-2..(TriMax + 1)) \X (-2..(TriMax + 1))

\* The three edge values, times four, of the centre of pixel p.
CentreEdges4(p) ==
    LET c == PixelCenter(p[1], p[2])
    IN  <<Edge4(TriB, TriC, c), Edge4(TriC, TriA, c), Edge4(TriA, TriB, c)>>

\* e / Area4 lies in the closed interval [0, 1].
WeightInUnit(e) ==
    \/ Area4 > 0 /\ 0 <= e /\ e <= Area4
    \/ Area4 < 0 /\ Area4 <= e /\ e <= 0

CentreInside(p) ==
    \A e \in {CentreEdges4(p)} :
        WeightInUnit(e[1]) /\ WeightInUnit(e[2]) /\ WeightInUnit(e[3])

\* The pixels whose centre lies in the triangle and exactly on its edge v1-v2.
OnSharedEdge == {p \in GridPixels : CentreEdges4(p)[3] = 0 /\ CentreInside(p)}

FragmentsAt(fragments, p) ==
    {k \in 1..Len(fragments) : fragments[k].position = [x |-> I(p[1]), y |-> I(p[2])]}

C7_Witness_Coincident ==
    /\ last.op = "triangle"
    /\ \A v \in {TriA, TriB, TriC} :
          v.x = PixelCenter(0, 0).x /\ v.y = PixelCenter(0, 0).y
    /\ last.fragments = <<>>

MirroredV3 ==
    [last.v3 EXCEPT
        !.position = VAdd(last.v1.position, VAdd(last.v2.position,
                                                 VScale(last.v3.position, I(-1)))),
        !.transformed_position = VAdd(TriA, VAdd(TriB, VScale(TriC, I(-1))))]

WeightsAt(p) ==
    barycentric_coordinates(PixelCenter(p[1], p[2]), TriA, TriB, TriC,
                            edge_function(TriA, TriB, TriC))

\* The centres of the pixels of the triangle's bounding box, which are the
\* points triangle() computes weights for.
BoxCentres ==
    LET box == BoxPixels(calculate_bounding_box(TriA, TriB, TriC))
    IN  {PixelCenter(box[k][1], box[k][2]) : k \in 1..Len(box)}

PixelOf(fragment) == <<fragment.position.x.n, fragment.position.y.n>>

MinZ == MinV(MinV(TriA.z, TriB.z), TriC.z)
MaxZ == MaxV(MaxV(TriA.z, TriB.z), TriC.z)

----------------------------------------------------------------------------
(* Properties of vertex_shader (SpecVS)                                    *)

\* C10: with the identity model matrix vertex_shader returns a vertex whose
\* transformed_position equals its position and whose transformed_normal
\* equals its normal.
C10_IdentityIsNoOp ==
    (last.op = "vertex_shader" /\ last.uniforms.model_matrix = Mat4Identity) =>
        /\ last.out.transformed_position = last.vertex.position
        /\ last.out.transformed_normal = last.vertex.normal
        /\ last.out.position = last.vertex.position
        /\ last.out.normal = last.vertex.normal

\* vertex_shader ran with the identity on a vertex off the origin whose normal
\* lies along no axis.
C10_Witness_IdentityApplied ==
    /\ last.op = "vertex_shader"
    /\ last.uniforms.model_matrix = Mat4Identity
    /\ last.vertex.position = V3(1, -1, 1)
    /\ last.vertex.normal = V3(1, 2, 3)
    /\ last.out.transformed_position = V3(1, -1, 1)

\* The linear part L of the model matrix: its upper-left 3x3 block, entry
\* (r, c) of L being entry (r, c) of the model matrix.
LinearPart(m) == Array([i \in 0..8 |-> At4(m, i % 3, i \div 3)])

\* The determinant of L in integers (the model matrices have integer entries).
IntDet(l) ==
    LET E(r, c) == At3(l, r, c).n
    IN  E(0, 0) * (E(1, 1) * E(2, 2) - E(1, 2) * E(2, 1))
        - E(0, 1) * (E(1, 0) * E(2, 2) - E(1, 2) * E(2, 0))
        + E(0, 2) * (E(1, 0) * E(2, 1) - E(1, 1) * E(2, 0))

LastL == LinearPart(last.uniforms.model_matrix)

\* C11: for an invertible linear part L, transformed_normal is the
\* inverse-transpose of L times the normal: it is the vector t with
\* L^T * t = normal.
C11_NormalIsInverseTranspose ==
    (last.op = "vertex_shader" /\ IntDet(LastL) # 0) =>
        Mat3MulVec(Transpose3(LastL), last.out.transformed_normal) = last.vertex.normal

\* What vertex_shader computes instead: the vector t with L * t = normal,
\* that is L^-1 * normal.
C11_NormalIsInverse ==
    (last.op = "vertex_shader" /\ IntDet(LastL) # 0) =>
        Mat3MulVec(LastL, last.out.transformed_normal) = last.vertex.normal

\* vertex_shader ran with an invertible L whose inverse is not symmetric, on a
\* normal that tells L^-1 from its transpose.
C11_Witness_InverseNotTranspose ==
    /\ last.op = "vertex_shader"
    /\ IntDet(LastL) # 0
    /\ Mat3MulVec(LastL, last.out.transformed_normal) = last.vertex.normal
    /\ Mat3MulVec(Transpose3(LastL), last.out.transformed_normal) # last.vertex.normal

\* C12: when the linear part of the model matrix is singular, vertex_shader
\* still returns a vertex, and its transformed_normal is the object-space normal.
C12_SingularFallsBackToIdentity ==
    (last.op = "vertex_shader" /\ IntDet(LastL) = 0) =>
        /\ last.out.transformed_normal = last.vertex.normal
        /\ DOMAIN last.out = DOMAIN last.vertex

\* vertex_shader ran with a singular, non-zero linear part on a normal that
\* the linear part does not leave in place.
C12_Witness_SingularApplied ==
    /\ last.op = "vertex_shader"
    /\ IntDet(LastL) = 0
    /\ Mat3MulVec(LastL, last.vertex.normal) # last.vertex.normal
    /\ last.out.transformed_normal = last.vertex.normal

\* The triangle of the vertex just shaded and two companions of it, shaded
\* with the same uniforms.
Companion(dx, dy) ==
    [last.vertex EXCEPT !.position = VAdd(last.vertex.position, V3(dx, dy, 0))]

CompanionTriangle ==
    <<last.vertex, Companion(2, 0), Companion(0, 2)>>

\* The shading position inside a fragment's colour.
ShadingPosition(fragment) == fragment.color[2][2]

\* The object-space point of weights w in the triangle tri.
ObjectPoint(tri, w) ==
    VAdd(VAdd(VScale(tri[1].position, w[1]), VScale(tri[2].position, w[2])),
         VScale(tri[3].position, w[3]))

\* C13: vertex_shader returns position, normal, tex_coords and color as given
\* and leaves its argument alone; the shading position of every fragment is
\* the point of the object-space triangle at the fragment's weights, whatever
\* the model matrix.
C13_OnlyDerivedFieldsChange ==
    last.op = "vertex_shader" =>
        /\ last.out.position = last.vertex.position
        /\ last.out.normal = last.vertex.normal
        /\ last.out.tex_coords = last.vertex.tex_coords
        /\ last.out.color = last.vertex.color
        /\ \A tv \in {MapSeq(CompanionTriangle,
                             LAMBDA v : vertex_shader(v, last.uniforms))} :
              \A fragments \in {triangle(tv[1], tv[2], tv[3])} :
                  \A k \in 1..Len(fragments) :
                      \A w \in {barycentric_coordinates(
                                    PixelCenter(fragments[k].position.x.n,
                                                fragments[k].position.y.n),
                                    tv[1].transformed_position,
                                    tv[2].transformed_position,
                                    tv[3].transformed_position,
                                    edge_function(tv[1].transformed_position,
                                                  tv[2].transformed_position,
                                                  tv[3].transformed_position))} :
                          ShadingPosition(fragments[k]) = ObjectPoint(CompanionTriangle, w)

\* C13, the argument: the call leaves the vertex it was given as it was.
C13_ArgumentUnchanged ==
    [][last.op = "vertex_shader_args" => last'.vertex = last.vertex]_vars

\* vertex_shader moved a vertex, and the triangle it belongs to has fragments.
C13_Witness_MovedVertexShaded ==
    /\ last.op = "vertex_shader"
    /\ last.out.transformed_position # last.vertex.position
    /\ triangle(vertex_shader(CompanionTriangle[1], last.uniforms),
                vertex_shader(CompanionTriangle[2], last.uniforms),
                vertex_shader(CompanionTriangle[3], last.uniforms)) # <<>>

----------------------------------------------------------------------------
(* Properties of the shading dispatch and its globals (SpecShade)          *)

\* The logged calls of shade.
ShadeCalls == {k \in 1..Len(drawn) : drawn[k].op = "shade"}

SameShadeInputs(a, b) ==
    /\ a.pos = b.pos
    /\ a.normal = b.normal
    /\ a.style = b.style
    /\ a.seed = b.seed

SameLight(a, b) ==
    /\ a.light_direction = b.light_direction
    /\ a.light_intensity = b.light_intensity

\* C14: the colour shade returns depends on the light direction and intensity
\* set before the call: two calls with the same position, normal, style and
\* seed under different lights return different colours.
C14_ShadeReadsLight ==
    \A i \in ShadeCalls, j \in ShadeCalls :
        (SameShadeInputs(drawn[i], drawn[j]) /\ ~SameLight(drawn[i], drawn[j])) =>
            drawn[i].color # drawn[j].color

\* Two calls of shade with the same inputs under two lights, the second light
\* set between them, that returned the same colour.
C14_Witness_LightIgnored ==
    \E i \in ShadeCalls, j \in ShadeCalls :
        /\ i < j
        /\ SameShadeInputs(drawn[i], drawn[j])
        /\ drawn[i].light_direction # drawn[j].light_direction
        /\ drawn[j].light_direction = LIGHT_DIRECTION
        /\ drawn[i].color = drawn[j].color

\* Calls of shade with equal position, normal, style and seed return equal colours.
ShadeDeterministic ==
    \A i \in ShadeCalls, j \in ShadeCalls :
        SameShadeInputs(drawn[i], drawn[j]) => drawn[i].color = drawn[j].color

\* A call of shade and a draw call leave the style index and the noise seed.
ShadeAndRenderOnlyRead ==
    last'.op \in {"shade", "render"} =>
        CURRENT_SHADER' = CURRENT_SHADER /\ NOISE_SEED' = NOISE_SEED

\* The style index and the seed change only in their setters.
OnlySettersWrite ==
    /\ CURRENT_SHADER' # CURRENT_SHADER => last'.op = "set_shader_index"
    /\ NOISE_SEED' # NOISE_SEED => last'.op = "set_noise_seed"

\* C15: shade is referentially transparent in (position, normal, style, seed),
\* and neither shade nor a draw call writes the style index or the noise seed,
\* which only the orchestrator's setters write.
C15_ShadeReadOnly ==
    /\ []ShadeDeterministic
    /\ [][ShadeAndRenderOnlyRead /\ OnlySettersWrite]_vars

\* Two calls of shade with equal inputs and a draw call between them.
C15_Witness_SameCallTwice ==
    /\ Len(drawn) = 3
    /\ drawn[1].op = "shade"
    /\ drawn[2].op = "render"
    /\ drawn[3].op = "shade"
    /\ SameShadeInputs(drawn[1], drawn[3])
    /\ drawn[1].color = drawn[3].color
    /\ framebuffer # clear(framebuffer)

\* The value most recently stored by set_shader_index before log entry k.
RECURSIVE LatestStyle(_)
LatestStyle(k) ==
    IF k = 0 THEN 0
    ELSE IF drawn[k].op = "set_shader_index" THEN drawn[k].idx
    ELSE LatestStyle(k - 1)

StyleNames == <<"gas", "rock", "sun", "cheese", "cat", "bubblegum", "ice">>

\* The style a key selects: its own for 0..6, that of key 0 for any other.
StyleOfKey(key) == IF key \in 0..6 THEN StyleNames[key + 1] ELSE StyleNames[1]

\* What the style of that name reads, as the shaders are written.
ColorOfStyle(name, e) ==
    IF name \in {"gas", "sun"} THEN <<name, e.pos, e.normal>>
    ELSE <<name, e.pos, e.normal, e.seed>>

\* C16: shade uses the key most recently stored by set_shader_index; keys
\* 0..6 select gas, rock, sun, cheese, cat, bubblegum and ice, and every
\* other key selects what key 0 selects.
C16_DispatchTotal ==
    \A k \in ShadeCalls :
        /\ drawn[k].style = LatestStyle(k - 1)
        /\ drawn[k].color = ColorOfStyle(StyleOfKey(drawn[k].style), drawn[k])

\* shade ran under key 8, stored after another key, and returned the gas colour.
C16_Witness_ShipKeyIsGas ==
    /\ Len(drawn) = 3
    /\ drawn[1].op = "set_shader_index"
    /\ drawn[1].idx = 1
    /\ drawn[2].op = "set_shader_index"
    /\ drawn[2].idx = 8
    /\ drawn[3].op = "shade"
    /\ drawn[3].color[1] = "gas"

----------------------------------------------------------------------------
(* Properties of the colours shade returns (SpecRange)                     *)

Channels(rgb) == {rgb.x, rgb.y, rgb.z}

InUnitRange(c) == LeV(I(0), c) /\ LeV(c, I(1))

\* The position's sine arguments stay finite and the normal's squared
\* length does not round to zero.
WellScaled(e) == e.pos.e = 0 /\ e.normal.e = 0

\* C17: every shading function reachable from shade returns, for every
\* finite position, every finite non-zero normal and every style key, a
\* colour whose three channels lie in [0, 1], so that the conversion to
\* 8 bits (times 255, clamped to [0, 255]) changes no value by clamping.
C17_ChannelsInUnitRange ==
    last.op = "shade_rgb" =>
        \A c \in Channels(last.rgb) :
            /\ InUnitRange(c)
            /\ Scaled255(c) = QMul(c, I(255))

\* What the code does: the channels lie in [0, 1] when no sine argument
\* overflows and the normal's length does not underflow; under the sun
\* style they are never NaN and never above 1.
C17_InRangeWhenWellScaled ==
    last.op = "shade_rgb" =>
        /\ WellScaled(last) => \A c \in Channels(last.rgb) : InUnitRange(c)
        /\ last.style = 2 => \A c \in Channels(last.rgb) : ~IsNaN(c) /\ LeV(c, I(1))
        /\ (last.style = 2 /\ last.normal.e = 0) =>
               \A c \in Channels(last.rgb) : LtV(I(0), c)

\* C17 witness: under the gas style, a finite position whose streak
\* argument overflows gives NaN channels with a unit normal.
C17_Witness_NaNChannel ==
    /\ last.op = "shade_rgb"
    /\ last.style = 0
    /\ last.pos = Scaled(V3(0, 0, 1), LargeExp)
    /\ last.normal = Scaled(V3(0, 0, 1), 0)
    /\ \A c \in Channels(last.rgb) : IsNaN(c)
    /\ last.lit_color = <<0, 0, 0>>

\* The sun style with a normal too short to normalize: -inf channels.
C17_SunBelowZero ==
    /\ last.op = "shade_rgb"
    /\ last.style = 2
    /\ last.normal = Scaled(V3(0, 0, 1), SmallExp)
    /\ \A c \in Channels(last.rgb) : c = NEG_INFINITY

----------------------------------------------------------------------------
(* Properties of the frame loop and of the ship's draw call (SpecFrame)    *)

Indices(op) == {i \in 1..Len(drawn) : drawn[i].op = op}

DepthTested == {i \in 1..Len(drawn) : drawn[i].kind = "depth"}

\* C18: in every iteration of the main loop the framebuffer is cleared
\* exactly once and before any pixel write, the starfield's raw writes
\* come before all depth-tested geometry, the warp overlay's raw writes
\* come after all of it, and an iteration that reaches presentation
\* presents once, after all writes, the buffer as the writes left it; when
\* Escape is down the loop exits with nothing cleared, written or presented.
C18_FrameOrder ==
    /\ \A i \in 1..Len(drawn) : (drawn[i].op = "clear") <=> (i = 1)
    /\ \A i \in Indices("draw_star_skybox"), j \in DepthTested : i < j
    /\ \A i \in Indices("draw_warp_overlay"), j \in DepthTested : j < i
    /\ \A i \in Indices("present") : i = Len(drawn)
    /\ frame.pc = "presented" =>
          /\ Indices("present") = {Len(drawn)}
          /\ Indices("draw_star_skybox") = {2}
          /\ DepthTested # {}
          /\ drawn[Len(drawn)].buffer = framebuffer.buffer
    /\ last.op = "escape" =>
          /\ frame.pc = "exited"
          /\ drawn = <<>>
          /\ framebuffer = last.pre

\* C18 witness: a presented solar-system frame with the warp overlay:
\* clear, stars, two planets, the ship, the overlay, the presentation.
C18_Witness_FullFrame ==
    /\ frame.pc = "presented"
    /\ Len(drawn) = 7
    /\ Indices("draw_warp_overlay") = {6}
    /\ DepthTested = {3, 4, 5}
    /\ nops = 2

InBoundsCells == {<<x, y>> : x \in 0..(FbWidth - 1), y \in 0..(FbHeight - 1)}

CellIndex(c) == c[2] * FbWidth + c[1]

\* The fragments of the draw call that lie on the pixel c.
Covering(fragments, c) ==
    {k \in 1..Len(fragments) :
        fragments[k].position.x = I(c[1]) /\ fragments[k].position.y = I(c[2])}

NoNegativeCoordinate(fragments) ==
    \A k \in 1..Len(fragments) :
        LeV(I(0), fragments[k].position.x) /\ LeV(I(0), fragments[k].position.y)

\* Every pixel the ship covers holds the colour of a ship fragment on it,
\* and every other pixel holds what it held before the ship was drawn.
ShipOnTop(fragments, buffer, before) ==
    \A c \in InBoundsCells :
        IF Covering(fragments, c) # {}
        THEN buffer[CellIndex(c)] \in
                 {ToHex(fragments[k].color) : k \in Covering(fragments, c)}
        ELSE buffer[CellIndex(c)] = before[CellIndex(c)]

\* C19: render_camera_ship resets every depth cell to +inf and leaves the
\* colours, then draws the ship; when it returns, every in-bounds pixel the
\* ship covers holds a ship colour whatever the depth of a planet drawn
\* there, and every pixel the ship does not cover holds its planet or star
\* colour.
C19_ShipOnTop ==
    /\ last.op = "ship_setup" =>
          /\ \A i \in DOMAIN framebuffer.zbuffer : framebuffer.zbuffer[i] = INFINITY
          /\ framebuffer.buffer = last.pre.buffer
    /\ last.op = "render_camera_ship" =>
          ShipOnTop(last.fragments, framebuffer.buffer, last.pre.buffer)

\* What the code does: the same, for a ship none of whose fragments has a
\* negative coordinate; and the presented buffer still shows it when no
\* warp overlay is drawn.
C19_ShipOnTopWhenNoneNegative ==
    /\ last.op = "ship_setup" =>
          /\ \A i \in DOMAIN framebuffer.zbuffer : framebuffer.zbuffer[i] = INFINITY
          /\ framebuffer.buffer = last.pre.buffer
    /\ (last.op = "render_camera_ship" /\ NoNegativeCoordinate(last.fragments)) =>
          ShipOnTop(last.fragments, framebuffer.buffer, last.pre.buffer)
    /\ (frame.pc = "presented" /\ Indices("draw_warp_overlay") = {}) =>
          \A i \in DepthTested :
              (drawn[i].of = "ship" /\ NoNegativeCoordinate(drawn[i].fragments)) =>
                  ShipOnTop(drawn[i].fragments, framebuffer.buffer, drawn[i].before)

\* C19 witness: a ship wholly left of the screen has coloured a pixel of
\* column 0 that it does not cover.
C19_Witness_UncoveredPixelPainted ==
    /\ last.op = "render_camera_ship"
    /\ frame.ship_vertex_array = OffTriangle
    /\ \E c \in InBoundsCells :
          /\ Covering(last.fragments, c) = {}
          /\ framebuffer.buffer[CellIndex(c)] # last.pre.buffer[CellIndex(c)]
          /\ framebuffer.buffer[CellIndex(c)] \in
                 {ToHex(last.fragments[k].color) : k \in 1..Len(last.fragments)}

\* A ship behind the planets is drawn over them.
C19_ShipBehindPlanetWins ==
    /\ last.op = "render_camera_ship"
    /\ frame.ship_vertex_array = FarTriangle
    /\ \E c \in InBoundsCells, i \in DepthTested :
          /\ drawn[i].of = "planet"
          /\ \E p \in Covering(drawn[i].fragments, c), s \in Covering(last.fragments, c) :
                /\ LtV(drawn[i].fragments[p].depth, last.fragments[s].depth)
                /\ framebuffer.buffer[CellIndex(c)] = ToHex(last.fragments[s].color)

\* C20: render_camera_ship leaves the shading style as it found it, for
\* every style in force before the call, and draws the ship under key 8.
C20_ShipRestoresStyle ==
    last.op = "render_camera_ship" =>
        /\ last.shader = 8
        /\ drawn[Len(drawn)].shader = 8
        /\ CURRENT_SHADER = drawn[Len(drawn) - 1].shader
        /\ CURRENT_SHADER = frame.planets[Len(frame.planets)].shader_idx

\* C20 witness: the ship was drawn under key 8 after a planet of style 7,
\* and the style is 7 again.
C20_Witness_RestoredAfterShip ==
    /\ last.op = "render_camera_ship"
    /\ last.shader = 8
    /\ CURRENT_SHADER = 7
    /\ drawn[Len(drawn) - 1].of = "planet"
    /\ drawn[Len(drawn) - 1].shader = 7

----------------------------------------------------------------------------
(* Properties of the main loop under keyboard input (SpecKeys)             *)

\* The style index the number keys 2..9 stand for.
StyleOfNumberKey ==
    [n \in 2..9 |-> CASE n = 2 -> 1 [] n = 3 -> 2 [] n = 4 -> 0 [] n = 5 -> 3
                      [] n = 6 -> 4 [] n = 7 -> 5 [] n = 8 -> 6 [] n = 9 -> 7]

KeyName == [n \in 2..9 |-> <<"Key2", "Key3", "Key4", "Key5", "Key6", "Key7", "Key8", "Key9">>[n - 1]]

\* The highest-numbered of the keys 2..9 in a non-empty set of them.
HighestKey(keys) ==
    CHOOSE n \in 2..9 : /\ KeyName[n] \in keys
                        /\ \A m \in 2..9 : KeyName[m] \in keys => m <= n

\* C21: every draw call of single-object mode runs under the style index
\* of the highest-numbered key 2..9 that was down in the most recent frame
\* with such a key down (Key1 down at the same time changes nothing), so
\* the style writes of solar-system mode never reach it.
C21_SingleModeStyle ==
    \A i \in Indices("render") :
        drawn[i].mode = "single" =>
            /\ frame.number_keys # {}
            /\ drawn[i].shader = StyleOfNumberKey[HighestKey(frame.number_keys)]
            /\ CURRENT_SHADER = drawn[i].shader

\* C21 witness: a single-object frame with no number key down, drawn under
\* style 7 of Key9, which was down together with Key1 in the frame before,
\* a frame that followed the solar-system start.
C21_Witness_StyleOfEarlierFrame ==
    /\ nops = 1
    /\ frame.keys = {"Right"}
    /\ frame.number_keys = {"Key9"}
    /\ \E i \in Indices("render") : drawn[i].mode = "single" /\ drawn[i].shader = 7

----------------------------------------------------------------------------
(* Properties of the main loop under warps and time (SpecWarp)             *)

\* A step that makes active_warp a new warp sequence.
WarpStarts ==
    (frame'.active_warp.some /\ frame'.active_warp # frame.active_warp) =>
        /\ ~frame.active_warp.some
        /\ last'.op = "warp"
        /\ last'.space
        /\ frame'.active_warp.val.started_at = frame.now
        /\ frame'.active_warp.val.pending_offset \in WarpOffsets

\* A step from an active warp to an active warp.
WarpKept ==
    (frame.active_warp.some /\ frame'.active_warp.some) =>
        frame'.active_warp = frame.active_warp

\* C22: active_warp holds at most one warp sequence, and it becomes a new
\* one only in the warp events of a frame in which Space is pressed while
\* none is active, with the time of the press as its start; while a warp
\* is charging no step, with or without Space, changes its pending offset
\* or its start time.
C22_OneWarpAtATime == [][WarpStarts /\ WarpKept]_vars

\* C22 witness: Space was pressed in a later frame of a charging warp, and
\* the warp is as it was.
C22_Witness_SpaceWhileCharging ==
    /\ last.op = "warp"
    /\ last.space
    /\ last.pre.active_warp.some
    /\ frame.active_warp = last.pre.active_warp
    /\ frame.now > frame.active_warp.val.started_at

\* The warp events of a frame, seen from the state before them.
AtWarpEvents == frame.pc = "warp"

\* The charging warp has elapsed at least the charge time at the check.
WarpElapsed ==
    /\ AtWarpEvents
    /\ frame.active_warp.some
    /\ frame'.now - frame.active_warp.val.started_at >= WARP_CHARGE_DURATION_MS

WarpTaken ==
    /\ ~frame'.active_warp.some
    /\ frame'.camera_offset = frame.active_warp.val.pending_offset
    /\ ~frame'.warp_overlay_progress.some

WarpCharging ==
    /\ frame'.now - frame'.active_warp.val.started_at < WARP_CHARGE_DURATION_MS
    /\ frame'.camera_offset = frame.camera_offset
    /\ frame'.warp_overlay_progress.some

WarpUntouched ==
    /\ frame'.camera_offset = frame.camera_offset
    /\ frame'.active_warp = frame.active_warp
    /\ frame'.warp_overlay_progress = frame.warp_overlay_progress

WarpStep ==
    /\ WarpElapsed => WarpTaken
    /\ (AtWarpEvents /\ frame'.active_warp.some) => WarpCharging
    /\ (~AtWarpEvents /\ frame.pc # "top") => WarpUntouched

\* Every draw call of the frame so far used the camera_offset of the frame.
SceneUnderCamera ==
    \A i \in Indices("render") : drawn[i].camera_offset = frame.camera_offset

\* A presented frame has its scene, and the overlay exactly when a warp is
\* active.
OverlayIffActive ==
    frame.pc \in {"present", "presented"} =>
        /\ Indices("render") # {}
        /\ (Indices("draw_warp_overlay") # {}) = frame.active_warp.some

\* C23: a charging warp whose elapsed time at the check is at least the
\* charge time is cleared in that frame's warp events, camera_offset
\* becomes its pending offset whatever the keys made of it, and no overlay
\* is asked for; a warp that is still active after the warp events has
\* elapsed less than the charge time, camera_offset is as handle_input
\* left it and the overlay is asked for; and the rest of the frame draws
\* the scene with that camera_offset and the overlay exactly when asked.
C23_WarpCompletes ==
    /\ [][WarpStep]_vars
    /\ [](SceneUnderCamera /\ OverlayIffActive)

\* C23 witness: the frame in which a warp completed has been presented;
\* the Right key was down in it, camera_offset is the offset of the warp,
\* the scene was drawn with it and no overlay was drawn.
C23_Witness_ArrivedAndPresented ==
    /\ frame.pc = "presented"
    /\ frame.keys = {"Right"}
    /\ ~frame.active_warp.some
    /\ frame.camera_offset \in WarpOffsets
    /\ Indices("draw_warp_overlay") = {}
    /\ \E i \in Indices("render") : drawn[i].camera_offset = frame.camera_offset

----------------------------------------------------------------------------
(* Properties of triangle() under permutations of its vertices (SpecPerm)  *)

\* The pixels of a sequence of fragments.
PixelsOf(fragments) ==
    {<<fragments[k].position.x, fragments[k].position.y>> : k \in DOMAIN fragments}

\* No pixel twice, and every pixel in [floor(min), ceil(max)] of the
\* transformed x and y of the triangle.
OncePerPixelInBox ==
    \A i \in DOMAIN drawn :
        LET fragments == drawn[i].fragments
            xs == {last.tri[k].transformed_position.x : k \in 1..3}
            ys == {last.tri[k].transformed_position.y : k \in 1..3}
        IN  /\ Cardinality(PixelsOf(fragments)) = Len(fragments)
            /\ \A k \in DOMAIN fragments :
                   /\ \E x \in xs : LeV(I(FloorI32(x)), fragments[k].position.x)
                   /\ \E x \in xs : LeV(fragments[k].position.x, I(CeilI32(x)))
                   /\ \E y \in ys : LeV(I(FloorI32(y)), fragments[k].position.y)
                   /\ \E y \in ys : LeV(fragments[k].position.y, I(CeilI32(y)))

\* The calls so far emitted the same set of pixels.
SamePixels ==
    \A i \in DOMAIN drawn, j \in DOMAIN drawn :
        PixelsOf(drawn[i].fragments) = PixelsOf(drawn[j].fragments)

\* Every coordinate of the triangle is a multiple of 1/2.
OnHalfPixelGrid ==
    \A k \in 1..3 : /\ last.tri[k].transformed_position.x.d \in {1, 2}
                     /\ last.tri[k].transformed_position.y.d \in {1, 2}

\* C24: triangle() on the three vertices of a non-degenerate triangle in
\* any two orders emits fragments for the same set of pixels, each call
\* emits no pixel twice, and every pixel it emits lies in the bounding box
\* [floor(min), ceil(max)] of the transformed x and y.
C24_OrderIndependent == SamePixels /\ OncePerPixelInBox

\* What holds of C24: no pixel twice and every pixel in the box for every
\* triangle, and the same pixels in every order for the triangles whose
\* edge function is computed without rounding.
C24_OrderIndependentWhenExact == OncePerPixelInBox /\ (OnHalfPixelGrid => SamePixels)

\* C24 witness: the centre of pixel (0, 0) is a vertex of the triangle;
\* the call in the order given emitted the pixel and the call with the
\* first two vertices exchanged did not.
C24_Witness_OrderChangesPixels ==
    /\ Len(drawn) = 2
    /\ last.tri[1].transformed_position = Vec3(Q(1, 2), Q(1, 2), I(0))
    /\ drawn[1].order = <<1, 2, 3>>
    /\ <<I(0), I(0)>> \in PixelsOf(drawn[1].fragments)
    /\ <<I(0), I(0)>> \notin PixelsOf(drawn[2].fragments)
    /\ <<I(1), I(1)>> \in PixelsOf(drawn[2].fragments)

====
